---------------------------- MODULE Spec2Model ----------------------------
(***************************************************************************)
(* A model of the OpenPSD decoder (warrengalyen/OpenPSD).                  *)
(*                                                                         *)
(* The module holds several specifications over one set of variables:      *)
(*   SpecParse   psd_parse_ex: header, sections, composite image data      *)
(*   SpecLayer   layer accessors: derived layer type, background predicate *)
(*   SpecRender  calls on a parsed document: RGBA8 rendering, lazy channel *)
(*               decoding, lazy parsing of text descriptors                *)
(* Bytes are naturals 0..255, buffers are sequences of bytes, and a NULL   *)
(* pointer is the one-element sequence <<-1>>, which is no byte buffer.    *)
(***************************************************************************)
EXTENDS Integers, Sequences, FiniteSets, TLC

VARIABLES
    stream,      \* the byte source handed to psd_parse_ex (contents, fixed)
    pos,         \* the stream position
    pc,          \* the section psd_parse_ex is at, or the state of the API
    doc,         \* struct psd_document
    ret,         \* what psd_parse_ex returned: "none" | "doc" | "NULL"
    out_status,  \* *out_status of psd_parse_ex
    build,       \* build-time configuration: [zip |-> PSD_ENABLE_ZIP defined]
    call,        \* the last API call on the document, with its outputs
    hist         \* what earlier calls returned (history, per specification); in
                 \* the parser's specification, the allocator's live blocks

vars == <<stream, pos, pc, doc, ret, out_status, build, call, hist>>

NULL == <<-1>>

\* a null psd_document_t pointer
NULL_DOC == [null |-> TRUE]

(***************************************************************************)
(* Program constants.                                                      *)
(***************************************************************************)
PSD_VERSION_PSD == 1
PSD_VERSION_PSB == 2
PSD_MAX_CHANNELS == 56
PSD_MAX_DIMENSION_STANDARD == 30000
PSD_MAX_DIMENSION_PSB == 300000

\* "8BPS", "8BIM", "8B64" as byte sequences
PSD_SIGNATURE == <<56, 66, 80, 83>>
SIG_8BIM == <<56, 66, 73, 77>>
SIG_8B64 == <<56, 66, 54, 52>>

PSD_COLOR_BITMAP == 0
PSD_COLOR_GRAYSCALE == 1
PSD_COLOR_INDEXED == 2
PSD_COLOR_RGB == 3
PSD_COLOR_CMYK == 4
PSD_COLOR_MULTICHANNEL == 7
PSD_COLOR_DUOTONE == 8
PSD_COLOR_LAB == 9

(***************************************************************************)
(* Big-endian helpers and the buffer stream.                               *)
(***************************************************************************)
Min(a, b) == IF a < b THEN a ELSE b

\* F applied to the value v: a local variable of the code, computed once
With(v, F(_)) == F(v)

\* A length no buffer of the model reaches; unsigned sums saturate at it, so
\* that 32- and 64-bit quantities compare with buffer lengths as in C.
Huge == 2^30

SatAdd(a, b) == IF a >= Huge \/ b >= Huge \/ a + b >= Huge THEN Huge ELSE a + b

Be16(b) == b[1] * 256 + b[2]

Be32(b) ==
    IF b[1] >= 64 THEN Huge
    ELSE b[1] * 16777216 + b[2] * 65536 + b[3] * 256 + b[4]

Enc16(n) == <<n \div 256, n % 256>>

Enc32(n) == <<n \div 16777216, (n \div 65536) % 256, (n \div 256) % 256, n % 256>>

Slice(s, from, n) == [i \in 1..n |-> s[from + i]]

\* psd_stream_read_exact on the buffer stream: n bytes at position p, or EOF
CanRead(data, p, n) == p + n <= Len(data)


\* psd_stream_read on the buffer stream: the bytes read (at most n)
StreamRead(data, p, n) == Slice(data, p, Min(n, Len(data) - p))

(***************************************************************************)
(* psd_parse_header: the status and the header fields stored in the        *)
(* document.  A failed read leaves the fields read so far.                 *)
(***************************************************************************)
DepthOk(depth) == depth = 1 \/ depth = 8 \/ depth = 16 \/ depth = 32

MaxDim(is_psb) ==
    IF is_psb THEN PSD_MAX_DIMENSION_PSB ELSE PSD_MAX_DIMENSION_STANDARD

\* a dimension check without the upper limit
DimOk_unbounded(is_psb, v) == ~(v < 1)

DimOk(is_psb, v) == ~(v < 1 \/ v > MaxDim(is_psb))

ChannelsOk(channels) == ~(channels < 1 \/ channels > PSD_MAX_CHANNELS)

VersionOk(version) == ~(version # PSD_VERSION_PSD /\ version # PSD_VERSION_PSB)

psd_parse_header(data, d) ==
    LET EndOfFile(dd) == [status |-> "PSD_ERR_STREAM_EOF", doc |-> dd, pos |-> Len(data)]
        version == Be16(Slice(data, 4, 2))
        d1 == [d EXCEPT !.is_psb = (version = PSD_VERSION_PSB)]
        d2 == [d EXCEPT !.is_psb = (version = PSD_VERSION_PSB),
                        !.channels = Be16(Slice(data, 12, 2))]
        d3 == [d EXCEPT !.is_psb = (version = PSD_VERSION_PSB),
                        !.channels = Be16(Slice(data, 12, 2)),
                        !.height = Be32(Slice(data, 14, 4))]
        d4 == [d EXCEPT !.is_psb = (version = PSD_VERSION_PSB),
                        !.channels = Be16(Slice(data, 12, 2)),
                        !.height = Be32(Slice(data, 14, 4)),
                        !.width = Be32(Slice(data, 18, 4))]
        d5 == [d EXCEPT !.is_psb = (version = PSD_VERSION_PSB),
                        !.channels = Be16(Slice(data, 12, 2)),
                        !.height = Be32(Slice(data, 14, 4)),
                        !.width = Be32(Slice(data, 18, 4)),
                        !.depth = Be16(Slice(data, 22, 2))]
    IN
    IF ~CanRead(data, 0, 4) THEN EndOfFile(d)
    ELSE IF Slice(data, 0, 4) # PSD_SIGNATURE
        THEN [status |-> "PSD_ERR_INVALID_FILE_FORMAT", doc |-> d, pos |-> 4]
    ELSE IF ~CanRead(data, 4, 2) THEN EndOfFile(d)
    ELSE IF ~VersionOk(version)
        THEN [status |-> "PSD_ERR_UNSUPPORTED_VERSION", doc |-> d, pos |-> 6]
    ELSE IF ~CanRead(data, 6, 6) THEN EndOfFile(d1)
    ELSE IF ~CanRead(data, 12, 2) THEN EndOfFile(d1)
    ELSE IF ~ChannelsOk(d2.channels)
        THEN [status |-> "PSD_ERR_INVALID_HEADER", doc |-> d2, pos |-> 14]
    ELSE IF ~CanRead(data, 14, 4) THEN EndOfFile(d2)
    ELSE IF ~CanRead(data, 18, 4) THEN EndOfFile(d3)
    ELSE IF ~(DimOk(d4.is_psb, d4.width) /\ DimOk(d4.is_psb, d4.height))
        THEN [status |-> "PSD_ERR_INVALID_HEADER", doc |-> d4, pos |-> 22]
    ELSE IF ~CanRead(data, 22, 2) THEN EndOfFile(d4)
    ELSE IF ~DepthOk(d5.depth)
        THEN [status |-> "PSD_ERR_INVALID_HEADER", doc |-> d5, pos |-> 24]
    ELSE IF ~CanRead(data, 24, 2) THEN EndOfFile(d5)
    ELSE [status |-> "PSD_OK",
          doc |-> [d5 EXCEPT !.color_mode = Be16(Slice(data, 24, 2))],
          pos |-> 26]

(***************************************************************************)
(* psd_parse_color_mode_data: a 4-byte length and that many bytes.         *)
(***************************************************************************)
psd_parse_color_mode_data(data, p, d, alloc_ok) ==
    LET d0 == [d EXCEPT !.color_data = [data |-> NULL, length |-> 0]] IN
    IF ~CanRead(data, p, 4) THEN [status |-> "PSD_ERR_STREAM_EOF", doc |-> d0, pos |-> Len(data)]
    ELSE LET n == Be32(Slice(data, p, 4)) IN
    IF n = 0 THEN [status |-> "PSD_OK", doc |-> d0, pos |-> p + 4]
    ELSE IF ~alloc_ok THEN [status |-> "PSD_ERR_OUT_OF_MEMORY", doc |-> d0, pos |-> p + 4]
    ELSE IF ~CanRead(data, p + 4, n)
        THEN [status |-> "PSD_ERR_STREAM_EOF", doc |-> d0, pos |-> Len(data)]
    ELSE [status |-> "PSD_OK",
          doc |-> [d0 EXCEPT !.color_data = [data |-> Slice(data, p + 4, n), length |-> n]],
          pos |-> p + 4 + n]

(***************************************************************************)
(* PackBits (psd_rle.c).                                                   *)
(***************************************************************************)
Repeat(v, n) == [i \in 1..n |-> v]

\* psd_rle_decode_scanline: cp and out are comp_pos and the bytes produced;
\* comp_pos in the result is the number of input bytes read at the return
RECURSIVE RleScanlineLoop(_, _, _, _)
RleScanlineLoop(c, cp, width, out) ==
    IF ~(Len(out) < width /\ cp < Len(c))
    THEN IF Len(out) # width
         THEN [status |-> "PSD_ERR_CORRUPT_DATA", out |-> out, comp_pos |-> cp]
         ELSE [status |-> "PSD_OK", out |-> out, comp_pos |-> cp]
    ELSE LET header == c[cp + 1] IN
         IF header < 128
         THEN IF Len(out) + header + 1 > width \/ cp + 1 + header + 1 > Len(c)
              THEN [status |-> "PSD_ERR_CORRUPT_DATA", out |-> out,
                    comp_pos |-> cp + 1]
              ELSE RleScanlineLoop(c, cp + 1 + header + 1, width,
                                   out \o Slice(c, cp + 1, header + 1))
         ELSE IF header = 128
         THEN RleScanlineLoop(c, cp + 1, width, out)
         ELSE IF cp + 1 >= Len(c) \/ Len(out) + (257 - header) > width
              THEN [status |-> "PSD_ERR_CORRUPT_DATA", out |-> out,
                    comp_pos |-> cp + 1]
              ELSE RleScanlineLoop(c, cp + 2, width,
                                   out \o Repeat(c[cp + 2], 257 - header))

psd_rle_decode_scanline(c, width) == RleScanlineLoop(c, 0, width, <<>>)

\* the first loop of psd_rle_decode: the compressed length of the scanline
\* that starts at comp_pos (sp is scan_pos, scanned is decomp_scanned)
RECURSIVE RleScanLen(_, _, _, _, _)
RleScanLen(c, comp_pos, sp, scanned, width) ==
    IF ~(scanned < width /\ comp_pos + sp < Len(c))
    THEN IF scanned # width
         THEN [status |-> "PSD_ERR_CORRUPT_DATA", scan_pos |-> sp]
         ELSE [status |-> "PSD_OK", scan_pos |-> sp]
    ELSE LET header == c[comp_pos + sp + 1] IN
         IF header < 128
         THEN IF scanned + header + 1 > width
                 \/ comp_pos + sp + 1 + header + 1 > Len(c)
              THEN [status |-> "PSD_ERR_CORRUPT_DATA", scan_pos |-> sp + 1]
              ELSE RleScanLen(c, comp_pos, sp + 1 + header + 1,
                              scanned + header + 1, width)
         ELSE IF header = 128
         THEN RleScanLen(c, comp_pos, sp + 1, scanned, width)
         ELSE IF comp_pos + sp + 1 >= Len(c)
              THEN [status |-> "PSD_ERR_CORRUPT_DATA", scan_pos |-> sp + 1]
              ELSE RleScanLen(c, comp_pos, sp + 2, scanned + (257 - header), width)

\* psd_rle_decode: scanline_count scanlines one after the other; comp_pos is
\* the number of input bytes consumed when it returns
RECURSIVE RleDecodeLoop(_, _, _, _, _)
RleDecodeLoop(c, comp_pos, left, width, out) ==
    IF left = 0 THEN [status |-> "PSD_OK", out |-> out, comp_pos |-> comp_pos]
    ELSE With(RleScanLen(c, comp_pos, 0, 0, width), LAMBDA scan :
         IF scan.status # "PSD_OK"
         THEN [status |-> scan.status, out |-> out, comp_pos |-> comp_pos]
         ELSE With(psd_rle_decode_scanline(Slice(c, comp_pos, scan.scan_pos), width),
                   LAMBDA row :
              IF row.status # "PSD_OK"
              THEN [status |-> row.status, out |-> out, comp_pos |-> comp_pos]
              ELSE RleDecodeLoop(c, comp_pos + scan.scan_pos, left - 1, width,
                                 out \o row.out)))

psd_rle_decode(c, scanline_count, width) ==
    IF scanline_count = 0 \/ width = 0
    THEN [status |-> "PSD_OK", out |-> <<>>, comp_pos |-> 0]
    ELSE RleDecodeLoop(c, 0, scanline_count, width, <<>>)

(***************************************************************************)
(* DEFLATE (psd_zip.c).  zlib is not part of the repository: a stream is   *)
(* modelled as the marker byte ZMark followed by the bytes it inflates to. *)
(***************************************************************************)
ZMark == 120

Inflate(compressed) ==
    IF Len(compressed) >= 1 /\ compressed[1] = ZMark
    THEN [ok |-> TRUE, out |-> Tail(compressed)]
    ELSE [ok |-> FALSE, out |-> <<>>]

\* psd_zip_decompress; zip is the build flag PSD_ENABLE_ZIP
psd_zip_decompress(zip, compressed, decompressed_len) ==
    IF ~zip THEN [status |-> "PSD_ERR_UNSUPPORTED_COMPRESSION", out |-> <<>>]
    ELSE IF compressed = NULL THEN [status |-> "PSD_ERR_INVALID_ARGUMENT", out |-> <<>>]
    ELSE LET z == Inflate(compressed) IN
         IF z.ok /\ Len(z.out) = decompressed_len
         THEN [status |-> "PSD_OK", out |-> z.out]
         ELSE [status |-> "PSD_ERR_CORRUPT_DATA", out |-> <<>>]

Abs(x) == IF x < 0 THEN -x ELSE x

paeth_predictor(a, b, c) ==
    LET p == a + b - c
        pa == Abs(p - a)
        pb == Abs(p - b)
        pcc == Abs(p - c)
    IN IF pa <= pb /\ pa <= pcc THEN a ELSE IF pb <= pcc THEN b ELSE c

\* the filter loops of psd_zip_reverse_prediction over data (the bytes after
\* the filter byte), from index i (0-based) on
RECURSIVE UnfilterFrom(_, _, _, _)
UnfilterFrom(filter, d, i, bpp) ==
    IF i >= Len(d) THEN d
    ELSE LET left == IF i >= bpp THEN d[i + 1 - bpp] ELSE 0
             v == CASE filter = 1 -> IF i >= bpp THEN d[i + 1] + left ELSE d[i + 1]
                    [] filter = 3 -> IF i >= bpp THEN d[i + 1] + (left \div 2)
                                     ELSE d[i + 1] + (d[i + 1] \div 2)
                    [] filter = 4 -> IF i >= bpp THEN d[i + 1] + paeth_predictor(left, 0, 0)
                                     ELSE d[i + 1] + paeth_predictor(0, 0, 0)
                    [] OTHER -> d[i + 1]
         IN UnfilterFrom(filter, [d EXCEPT ![i + 1] = v % 256], i + 1, bpp)

\* psd_zip_reverse_prediction on scanline_data (filter byte, then data): the
\* data is unfiltered and moved one byte down; the last byte stays as it was
psd_zip_reverse_prediction(scanline_data, bpp) ==
    IF Len(scanline_data) = 0 \/ bpp = 0 \/ bpp > 8
    THEN [status |-> "PSD_ERR_INVALID_ARGUMENT", out |-> scanline_data]
    ELSE IF scanline_data[1] > 4
    THEN [status |-> "PSD_ERR_CORRUPT_DATA", out |-> scanline_data]
    ELSE [status |-> "PSD_OK",
          out |-> UnfilterFrom(scanline_data[1], Tail(scanline_data), 0, bpp)
                  \o <<scanline_data[Len(scanline_data)]>>]

\* the loop of psd_zip_decompress_with_prediction over the inflated buffer
RECURSIVE PredictionLoop(_, _, _, _)
PredictionLoop(buf, offset, scanline_width, bpp) ==
    IF ~(offset < Len(buf)) \/ offset + scanline_width + 1 > Len(buf)
    THEN [status |-> "PSD_OK", out |-> buf]
    ELSE LET r == psd_zip_reverse_prediction(
                      Slice(buf, offset, scanline_width + 1), bpp) IN
         IF r.status # "PSD_OK" THEN [status |-> r.status, out |-> buf]
         ELSE PredictionLoop(
                  [i \in 1..Len(buf) |->
                      IF i > offset /\ i <= offset + scanline_width + 1
                      THEN r.out[i - offset] ELSE buf[i]],
                  offset + scanline_width, scanline_width, bpp)

psd_zip_decompress_with_prediction(zip, compressed, decompressed_len, scanline_width, bpp) ==
    IF ~zip THEN [status |-> "PSD_ERR_UNSUPPORTED_COMPRESSION", out |-> <<>>]
    ELSE IF scanline_width = 0 THEN [status |-> "PSD_ERR_INVALID_ARGUMENT", out |-> <<>>]
    ELSE LET z == psd_zip_decompress(zip, compressed, decompressed_len) IN
         IF z.status # "PSD_OK" THEN z
         ELSE PredictionLoop(z.out, 0, scanline_width, bpp)

(***************************************************************************)
(* Composite image data (psd_parse_composite_image).                       *)
(***************************************************************************)
BytesPerSample(depth) == IF depth = 1 THEN 1 ELSE depth \div 8

BytesPerScanline(width, depth) ==
    IF depth = 1 THEN (width + 7) \div 8 ELSE width * BytesPerSample(depth)

\* the row-count table: n counts of count_bytes bytes each from position p on;
\* the saturating sum, or EOF
RECURSIVE ReadRowCounts(_, _, _, _, _)
ReadRowCounts(data, p, n, count_bytes, sum) ==
    IF n = 0 THEN [status |-> "PSD_OK", sum |-> sum, pos |-> p]
    ELSE IF ~CanRead(data, p, count_bytes)
    THEN [status |-> "PSD_ERR_STREAM_EOF", sum |-> sum, pos |-> Len(data)]
    ELSE ReadRowCounts(data, p + count_bytes, n - 1, count_bytes,
             SatAdd(sum, IF count_bytes = 2 THEN Be16(Slice(data, p, 2))
                         ELSE Be32(Slice(data, p, 4))))

psd_try_decode_composite_rle(data, counts_pos, num_scanlines, bytes_per_scanline, expected, count_bytes, alloc_ok) ==
    With(ReadRowCounts(data, counts_pos, num_scanlines, count_bytes, 0), LAMBDA counts :
    IF counts.status # "PSD_OK"
    THEN [status |-> counts.status, out |-> <<>>, pos |-> counts.pos]
    ELSE IF ~alloc_ok
    THEN [status |-> "PSD_ERR_OUT_OF_MEMORY", out |-> <<>>, pos |-> counts.pos]
    ELSE With(StreamRead(data, counts.pos, counts.sum), LAMBDA compressed :
         IF Len(compressed) # counts.sum
         THEN [status |-> "PSD_ERR_STREAM_EOF", out |-> <<>>,
               pos |-> counts.pos + Len(compressed)]
         ELSE With(psd_rle_decode(compressed, num_scanlines, bytes_per_scanline),
                   LAMBDA r :
              IF r.status # "PSD_OK"
              THEN [status |-> r.status, out |-> <<>>,
                    pos |-> counts.pos + Len(compressed)]
              ELSE IF Len(r.out) # expected
              THEN [status |-> "PSD_ERR_CORRUPT_DATA", out |-> <<>>,
                    pos |-> counts.pos + Len(compressed)]
              ELSE [status |-> "PSD_OK", out |-> r.out,
                    pos |-> counts.pos + Len(compressed)])))

\* the RLE case: the format's count width first, then the other one
CompositeRle(data, counts_pos, d, bytes_per_scanline, size, oom) ==
    With(psd_try_decode_composite_rle(data, counts_pos, d.height * d.channels,
             bytes_per_scanline, size, IF d.is_psb THEN 4 ELSE 2, oom # "rle.try1"),
         LAMBDA first :
         IF first.status = "PSD_OK" THEN first
         ELSE psd_try_decode_composite_rle(data, counts_pos, d.height * d.channels,
                  bytes_per_scanline, size, IF d.is_psb THEN 2 ELSE 4,
                  oom # "rle.try2"))

psd_parse_composite_image(zip, data, p, d, oom) ==
    IF ~CanRead(data, p, 2)
    THEN [status |-> "PSD_OK",
          doc |-> [d EXCEPT !.composite =
                      [data |-> NULL, data_length |-> 0, compression |-> 0]],
          pos |-> Len(data)]
    ELSE LET
        compression == Be16(Slice(data, p, 2))
        bytes_per_scanline == BytesPerScanline(d.width, d.depth)
        size == d.channels * d.height * bytes_per_scanline
        \* composite.compression set, composite.data not allocated
        d1 == [d EXCEPT !.composite.compression = compression]
        \* composite.data_length set, composite.data freed again
        d2 == [d EXCEPT !.composite.compression = compression,
                        !.composite.data_length = size]
        Failed(st, at) == [status |-> st, doc |-> d2, pos |-> at]
        Done(bytes, at) ==
            [status |-> "PSD_OK", doc |-> [d2 EXCEPT !.composite.data = bytes], pos |-> at]
    IN
    IF compression > 3
    THEN [status |-> "PSD_ERR_UNSUPPORTED_COMPRESSION", doc |-> d, pos |-> p + 2]
    ELSE IF oom = "composite.data"
    THEN [status |-> "PSD_ERR_OUT_OF_MEMORY", doc |-> d1, pos |-> p + 2]
    ELSE IF compression = 0
    THEN With(StreamRead(data, p + 2, size), LAMBDA got :
         IF Len(got) # size THEN Failed("PSD_ERR_STREAM_EOF", p + 2 + Len(got))
         ELSE Done(got, p + 2 + size))
    ELSE IF compression = 1
    THEN With(CompositeRle(data, p + 2, d, bytes_per_scanline, size, oom), LAMBDA r :
         IF r.status # "PSD_OK" THEN Failed("PSD_ERR_CORRUPT_DATA", r.pos)
         ELSE Done(r.out, r.pos))
    ELSE IF oom = "zip.compressed" THEN Failed("PSD_ERR_OUT_OF_MEMORY", p + 2)
    ELSE With(StreamRead(data, p + 2, size * 2), LAMBDA got :
         IF Len(got) <= 0 THEN Failed("PSD_ERR_STREAM_EOF", p + 2)
         ELSE With(IF compression = 2
                   THEN psd_zip_decompress(zip, got, size)
                   ELSE psd_zip_decompress_with_prediction(
                            zip, got, size, bytes_per_scanline, BytesPerSample(d.depth)),
                   LAMBDA z :
              IF z.status # "PSD_OK" THEN Failed(z.status, p + 2 + Len(got))
              ELSE Done(z.out, p + 2 + Len(got))))

(***************************************************************************)
(* psd_parse_ex.  The byte source is the header and colour-mode bytes      *)
(* (stream.head), the image-resources and layer-and-mask sections, each    *)
(* given by what its parser makes of it (stream.res, stream.lay), and the  *)
(* bytes of the image-data section (stream.tail).                          *)
(***************************************************************************)
InitDoc ==
    [is_psb |-> FALSE, width |-> 0, height |-> 0, channels |-> 0, depth |-> 0,
     color_mode |-> 0,
     color_data |-> [data |-> NULL, length |-> 0],
     resources |-> [count |-> 0],
     layers |-> [layers |-> <<>>, layer_count |-> 0, has_transparency_layer |-> FALSE],
     composite |-> [data |-> NULL, data_length |-> 0, compression |-> 0],
     text_layers |-> [items |-> <<>>, count |-> 0]]

\* res is [status, count]: the section's outcome and the blocks it holds
psd_parse_resources(res, d) ==
    IF res.status # "PSD_OK"
    THEN [status |-> res.status, doc |-> d]
    ELSE [status |-> "PSD_OK", doc |-> [d EXCEPT !.resources = [count |-> res.count]]]

\* lay is [status, layers, has_transparency_layer]
psd_parse_layer_info(lay, d) ==
    IF lay.status # "PSD_OK"
    THEN [status |-> lay.status, doc |-> d]
    ELSE [status |-> "PSD_OK",
          doc |-> [d EXCEPT !.layers =
                      [layers |-> lay.layers, layer_count |-> Len(lay.layers),
                       has_transparency_layer |-> lay.has_transparency_layer]]]


(***************************************************************************)
(* Layer records.  A layer's extra-data (additional_data) is the bytes     *)
(* that follow its blend-mode fields: layer mask data, blending ranges,    *)
(* the Pascal name padded to 4, then the additional layer info blocks.     *)
(***************************************************************************)
KEY_TySh == <<84, 121, 83, 104>>
KEY_tySh == <<116, 121, 83, 104>>
KEY_SoLd == <<83, 111, 76, 100>>
KEY_SoLE == <<83, 111, 76, 69>>
KEY_lfx2 == <<108, 102, 120, 50>>
KEY_vmsk == <<118, 109, 115, 107>>
KEY_vmns == <<118, 109, 110, 115>>
KEY_lsct == <<108, 115, 99, 116>>
KEY_SoCo == <<83, 111, 67, 111>>
KEY_GdFl == <<71, 100, 70, 108>>
KEY_PtFl == <<80, 116, 70, 108>>
KEY_vtrk == <<118, 116, 114, 107>>
KEY_luni == <<108, 117, 110, 105>>
PREFIX_adj == <<97, 100, 106>>
PREFIX_3dL == <<51, 100, 76>>
AdjustmentKeys ==
    {<<98, 114, 105, 116>>,
     <<98, 114, 116, 67>>,
     <<108, 101, 118, 108>>,
     <<99, 117, 114, 118>>,
     <<104, 117, 101, 32>>,
     <<104, 117, 101, 50>>,
     <<98, 108, 110, 99>>,
     <<118, 105, 98, 65>>,
     <<101, 120, 112, 65>>,
     <<109, 105, 120, 114>>,
     <<115, 101, 108, 99>>,
     <<116, 104, 114, 115>>,
     <<112, 111, 115, 116>>,
     <<112, 104, 102, 108>>,
     <<103, 114, 100, 109>>,
     <<99, 108, 114, 76>>}

NoFeatures ==
    [is_group_start |-> FALSE, is_group_end |-> FALSE, has_text |-> FALSE,
     has_smart_object |-> FALSE, has_adjustment |-> FALSE, has_fill |-> FALSE,
     has_effects |-> FALSE, has_3d |-> FALSE, has_video |-> FALSE,
     has_vector_mask |-> FALSE]

\* the feature a block's key sets (the else-if chain of the block loop); off
\* is the block's offset and remaining the bytes from there to the end
DetectFeature(f, data, off, remaining, key, block_len) ==
    IF key = KEY_TySh THEN [f EXCEPT !.has_text = TRUE]
    ELSE IF key = KEY_SoLd \/ key = KEY_SoLE THEN [f EXCEPT !.has_smart_object = TRUE]
    ELSE IF key = KEY_lfx2 THEN [f EXCEPT !.has_effects = TRUE]
    ELSE IF key = KEY_vmsk THEN [f EXCEPT !.has_vector_mask = TRUE]
    ELSE IF key = KEY_vmns THEN [f EXCEPT !.has_vector_mask = TRUE]
    ELSE IF SubSeq(key, 1, 3) = PREFIX_adj THEN [f EXCEPT !.has_adjustment = TRUE]
    ELSE IF key \in AdjustmentKeys THEN [f EXCEPT !.has_adjustment = TRUE]
    ELSE IF SubSeq(key, 1, 3) = PREFIX_3dL THEN [f EXCEPT !.has_3d = TRUE]
    ELSE IF key = KEY_lsct
    THEN IF block_len >= 4 /\ remaining >= 12 + block_len
         THEN LET section_type == Be32(Slice(data, off + 12, 4)) IN
              IF section_type = 1 \/ section_type = 2
              THEN [f EXCEPT !.is_group_start = TRUE]
              ELSE IF section_type = 3 THEN [f EXCEPT !.is_group_end = TRUE]
              ELSE f
         ELSE f
    ELSE IF key = KEY_SoCo \/ key = KEY_GdFl \/ key = KEY_PtFl
    THEN [f EXCEPT !.has_fill = TRUE]
    ELSE IF key = KEY_vtrk THEN [f EXCEPT !.has_video = TRUE]
    ELSE f

\* the block loop of the layer-record parser: 12-byte block headers
\* (signature, key, length), payloads padded to an even length
RECURSIVE ScanBlocks(_, _, _)
ScanBlocks(data, off, f) ==
    LET remaining == Len(data) - off IN
    IF remaining < 12 THEN f
    ELSE LET sig == Slice(data, off, 4) IN
    IF sig # SIG_8BIM /\ sig # SIG_8B64 THEN f
    ELSE LET key == Slice(data, off + 4, 4)
             block_len == Be32(Slice(data, off + 8, 4))
         IN
    IF block_len > remaining - 12 THEN f
    ELSE LET f1 == DetectFeature(f, data, off, remaining, key, block_len)
             padded_len == IF block_len % 2 # 0 THEN block_len + 1 ELSE block_len
             block_total == 12 + padded_len
         IN IF block_total <= remaining
            THEN ScanBlocks(data, off + block_total, f1)
            ELSE f1

\* a 4-byte length and its data, as the layer-record parser skips it: -1 is
\* "goto skip_extra_parsing"
SkipLengthPrefixed(data, off) ==
    LET remaining == Len(data) - off IN
    IF remaining < 4 THEN off
    ELSE LET n == Be32(Slice(data, off, 4)) IN
         IF n > 0 /\ n <= remaining - 4 THEN off + 4 + n
         ELSE IF n > remaining - 4 THEN -1
         ELSE off + 4

PascalTotal(name_len) ==
    LET name_total == 1 + name_len IN
    IF name_total % 4 # 0 THEN name_total + (4 - (name_total % 4)) ELSE name_total

SkipName(data, off) ==
    LET remaining == Len(data) - off IN
    IF remaining < 1 THEN off
    ELSE IF PascalTotal(data[off + 1]) <= remaining
         THEN off + PascalTotal(data[off + 1])
         ELSE -1

\* the features the layer-record parser leaves in layer->features
ParseFeatures(additional_data) ==
    IF Len(additional_data) = 0 THEN NoFeatures
    ELSE LET a == SkipLengthPrefixed(additional_data, 0) IN
    IF a < 0 THEN NoFeatures
    ELSE LET b == SkipLengthPrefixed(additional_data, a) IN
    IF b < 0 THEN NoFeatures
    ELSE LET c == SkipName(additional_data, b) IN
    IF c < 0 THEN NoFeatures
    ELSE ScanBlocks(additional_data, c, NoFeatures)

(***************************************************************************)
(* psd_document_get_layer_type.  layer_index is the C index (from 0).      *)
(***************************************************************************)
LayerAt(d, layer_index) == d.layers.layers[layer_index + 1]

\* the chain with the group-end test first
LayerTypeOf_end_first(features, channel_count) ==
    IF features.is_group_end THEN "PSD_LAYER_TYPE_GROUP_END"
    ELSE IF features.is_group_start THEN "PSD_LAYER_TYPE_GROUP_START"
    ELSE IF features.has_text THEN "PSD_LAYER_TYPE_TEXT"
    ELSE IF features.has_smart_object THEN "PSD_LAYER_TYPE_SMART_OBJECT"
    ELSE IF features.has_adjustment THEN "PSD_LAYER_TYPE_ADJUSTMENT"
    ELSE IF features.has_fill THEN "PSD_LAYER_TYPE_FILL"
    ELSE IF features.has_effects THEN "PSD_LAYER_TYPE_EFFECTS"
    ELSE IF features.has_3d THEN "PSD_LAYER_TYPE_3D"
    ELSE IF features.has_video THEN "PSD_LAYER_TYPE_VIDEO"
    ELSE IF channel_count > 0 THEN "PSD_LAYER_TYPE_PIXEL"
    ELSE "PSD_LAYER_TYPE_EMPTY"

LayerTypeOf(features, channel_count) ==
    IF features.is_group_start THEN "PSD_LAYER_TYPE_GROUP_START"
    ELSE IF features.is_group_end THEN "PSD_LAYER_TYPE_GROUP_END"
    ELSE IF features.has_text THEN "PSD_LAYER_TYPE_TEXT"
    ELSE IF features.has_smart_object THEN "PSD_LAYER_TYPE_SMART_OBJECT"
    ELSE IF features.has_adjustment THEN "PSD_LAYER_TYPE_ADJUSTMENT"
    ELSE IF features.has_fill THEN "PSD_LAYER_TYPE_FILL"
    ELSE IF features.has_effects THEN "PSD_LAYER_TYPE_EFFECTS"
    ELSE IF features.has_3d THEN "PSD_LAYER_TYPE_3D"
    ELSE IF features.has_video THEN "PSD_LAYER_TYPE_VIDEO"
    ELSE IF channel_count > 0 THEN "PSD_LAYER_TYPE_PIXEL"
    ELSE "PSD_LAYER_TYPE_EMPTY"

psd_document_get_layer_type(d, layer_index) ==
    IF d = NULL_DOC THEN [status |-> "PSD_ERR_NULL_POINTER", type |-> "unset"]
    ELSE IF layer_index < 0 \/ layer_index >= d.layers.layer_count
    THEN [status |-> "PSD_ERR_OUT_OF_RANGE", type |-> "unset"]
    ELSE [status |-> "PSD_OK",
          type |-> LayerTypeOf(LayerAt(d, layer_index).features,
                               LayerAt(d, layer_index).channel_count)]

(***************************************************************************)
(* psd_document_is_background_layer.                                       *)
(***************************************************************************)
\* the accessors' way past a 4-byte length and its data: the data is skipped
\* when it fits, and the scan goes on either way
SkipLengthLenient(data, off) ==
    LET remaining == Len(data) - off IN
    IF remaining < 4 THEN off
    ELSE LET n == Be32(Slice(data, off, 4)) IN
         IF n > 0 /\ n <= remaining - 4 THEN off + 4 + n ELSE off + 4

SkipNameLenient(data, off) ==
    LET remaining == Len(data) - off IN
    IF remaining < 1 THEN off
    ELSE IF PascalTotal(data[off + 1]) <= remaining
         THEN off + PascalTotal(data[off + 1])
         ELSE off

\* the predicate's block loop: 8 bytes per block header, the first four
\* taken as the key and the next four as the length
RECURSIVE VectorMaskScan(_, _)
VectorMaskScan(data, off) ==
    LET remaining == Len(data) - off IN
    IF remaining < 8 THEN FALSE
    ELSE LET key == Slice(data, off, 4)
             block_len == Be32(Slice(data, off + 4, 4))
         IN IF key = KEY_vmsk \/ key = KEY_vmns THEN TRUE
            ELSE IF SatAdd(8, block_len) > remaining THEN FALSE
            ELSE VectorMaskScan(data, off + 8 + block_len)

\* an index test that accepts every index of the array
IsBottomMost_any(d, layer_index) ==
    layer_index >= 0 /\ layer_index < d.layers.layer_count

IsBottomMost(d, layer_index) == layer_index = d.layers.layer_count - 1

BackgroundFlag(layer) == (layer.flags \div 4) % 2 = 1

HasTransparencyChannel(layer) ==
    \E i \in 1..layer.channel_count : layer.channels[i].channel_id = -1

HasLayerMask(layer) ==
    /\ layer.additional_length > 0
    /\ layer.additional_length >= 4
    /\ Be32(Slice(layer.additional_data, 0, 4)) > 0

HasVectorMask(layer) ==
    /\ layer.additional_length > 0
    /\ VectorMaskScan(layer.additional_data,
           SkipNameLenient(layer.additional_data,
               SkipLengthLenient(layer.additional_data,
                   SkipLengthLenient(layer.additional_data, 0))))

\* the criteria 2..6 on a layer record
BackgroundCriteria(layer, base_channel_count) ==
    /\ BackgroundFlag(layer)
    /\ ~HasTransparencyChannel(layer)
    /\ ~HasLayerMask(layer)
    /\ ~HasVectorMask(layer)
    /\ layer.channel_count = base_channel_count

\* the set of results a call can give.  With no layers and layer_index -1
\* the index test passes and the record read is layers[-1], outside the
\* array (or through a null pointer): whatever is there decides, or the
\* read faults
psd_document_is_background_layer(d, layer_index, base_channel_count) ==
    IF d = NULL_DOC THEN {"0"}
    ELSE IF ~IsBottomMost(d, layer_index) THEN {"0"}
    ELSE IF layer_index < 0 THEN {"0", "1", "fault"}
    ELSE IF BackgroundCriteria(LayerAt(d, layer_index), base_channel_count)
    THEN {"1"} ELSE {"0"}

(***************************************************************************)
(* psd_parse_text_layers: the text-layer index built from the layers'      *)
(* TySh / tySh blocks.  Each record keeps the block's payload (raw_tysh);  *)
(* its descriptor (text_data) is parsed on first use.                      *)
(***************************************************************************)
SIG_8B6M == <<56, 66, 54, 77>>

\* a null psd_descriptor_t pointer
NULL_DESC == [null |-> TRUE]

\* a pointer that was never assigned and is not null: a descriptor pointer,
\* a byte pointer
WILD_DESC == [class_id |-> <<>>, properties |-> <<>>, property_count |-> 0, wild |-> TRUE]
WILD == <<-2>>

\* what the stack slot of a psd_text_layer_t holds before it is written:
\* zeroes, or anything else
ZeroStack == [text_data |-> NULL_DESC, warp_data |-> NULL_DESC, raw_text_engine |-> NULL]

Stacks ==
    {ZeroStack,
     [text_data |-> WILD_DESC, warp_data |-> WILD_DESC, raw_text_engine |-> WILD]}

\* a record after memset(.., 0, ..) with its payload copy
TextItem(layer_index, source, payload) ==
    [layer_index |-> layer_index, source |-> source,
     raw_tysh |-> payload, raw_tysh_len |-> Len(payload),
     text_data |-> NULL_DESC, warp_data |-> NULL_DESC, raw_text_engine |-> NULL]

\* the record a TySh block adds.  psd_parse_tysh_payload returns before its
\* memset when no stream can be made of the payload (psd_stream_create_buffer
\* refuses a length of 0); the caller then sets the index, the source and
\* the payload copy and adds the record with its other fields as the stack
\* left them
psd_parse_tysh_payload(layer_index, payload, stack) ==
    IF Len(payload) = 0
    THEN [TextItem(layer_index, "PSD_TEXT_SOURCE_TYSH", payload) EXCEPT
             !.text_data = stack.text_data, !.warp_data = stack.warp_data,
             !.raw_text_engine = stack.raw_text_engine]
    ELSE TextItem(layer_index, "PSD_TEXT_SOURCE_TYSH", payload)

RECURSIVE TextBlockScan(_, _, _, _)
TextBlockScan(data, off, layer_index, stack) ==
    LET remaining == Len(data) - off IN
    IF remaining < 8 THEN <<>>
    \* 8..11 bytes left: the length is read from behind the data; whatever
    \* it reads, block_total is 12 or more and the loop breaks
    ELSE IF remaining < 12 THEN <<>>
    ELSE LET sig == Slice(data, off, 4)
             key == Slice(data, off + 4, 4)
             block_len == Be32(Slice(data, off + 8, 4))
             block_total == 12 + block_len + (block_len % 2)
         IN
    IF block_len > remaining - 12 \/ block_total > remaining THEN <<>>
    ELSE IF sig # SIG_8BIM /\ sig # SIG_8B6M
    THEN TextBlockScan(data, off + block_total, layer_index, stack)
    ELSE (IF key = KEY_TySh
          THEN <<psd_parse_tysh_payload(layer_index, Slice(data, off + 12, block_len),
                                        stack)>>
          ELSE IF key = KEY_tySh
          THEN <<TextItem(layer_index, "PSD_TEXT_SOURCE_TYSH_LEGACY",
                          Slice(data, off + 12, block_len))>>
          ELSE <<>>)
         \o TextBlockScan(data, off + block_total, layer_index, stack)

LayerTextItems(layer, layer_index, stack) ==
    IF ~layer.features.has_text \/ layer.additional_length < 12 THEN <<>>
    ELSE TextBlockScan(layer.additional_data,
             SkipNameLenient(layer.additional_data,
                 SkipLengthLenient(layer.additional_data,
                     SkipLengthLenient(layer.additional_data, 0))),
             layer_index, stack)

RECURSIVE TextItemsFrom(_, _, _)
TextItemsFrom(layers, i, stack) ==
    IF i > Len(layers) THEN <<>>
    ELSE LayerTextItems(layers[i], i - 1, stack) \o TextItemsFrom(layers, i + 1, stack)

psd_parse_text_layers(d, stack) ==
    IF d.layers.layer_count <= 0 THEN [status |-> "PSD_OK", doc |-> d]
    ELSE LET items == TextItemsFrom(d.layers.layers, 1, stack) IN
         [status |-> "PSD_OK",
          doc |-> [d EXCEPT !.text_layers = [items |-> items, count |-> Len(items)]]]

SoftCompositeStatus ==
    {"PSD_ERR_STREAM_EOF", "PSD_ERR_STREAM_INVALID", "PSD_ERR_UNSUPPORTED_COMPRESSION"}

\* psd_parse_ex as it would be if the status of a soft composite failure
\* were stored in the output status
psd_parse_ex_soft_stored(s, zip, oom, stack) ==
    LET Fail(st, at) == [ret |-> "NULL", status |-> st, doc |-> NULL_DOC, pos |-> at] IN
    IF s.null THEN Fail("PSD_ERR_NULL_POINTER", 0)
    ELSE IF oom = "doc" THEN Fail("PSD_ERR_OUT_OF_MEMORY", 0)
    ELSE With(psd_parse_header(s.head, InitDoc), LAMBDA h :
    IF h.status # "PSD_OK" THEN Fail(h.status, h.pos)
    ELSE With(psd_parse_color_mode_data(s.head, h.pos, h.doc, oom # "color_data"),
              LAMBDA c :
    IF c.status # "PSD_OK" THEN Fail(c.status, c.pos)
    ELSE With(psd_parse_resources(s.res, c.doc), LAMBDA r :
    IF r.status # "PSD_OK" THEN Fail(r.status, c.pos)
    ELSE With(psd_parse_layer_info(s.lay, r.doc), LAMBDA l :
    IF l.status # "PSD_OK" THEN Fail(l.status, c.pos)
    ELSE With(psd_parse_text_layers(l.doc, stack), LAMBDA t :
         With(psd_parse_composite_image(zip, s.tail, 0, t.doc, oom), LAMBDA ci :
         IF ci.status # "PSD_OK" /\ ci.status \notin SoftCompositeStatus
         THEN Fail(ci.status, ci.pos)
         ELSE [ret |-> "doc", status |-> ci.status, doc |-> ci.doc, pos |-> ci.pos]))))))

\* oom names the allocation the allocator refuses during this call ("none":
\* it serves them all), stack is what the text-layer index finds in its
\* uninitialised local record
psd_parse_ex(s, zip, oom, stack) ==
    LET Fail(st, at) == [ret |-> "NULL", status |-> st, doc |-> NULL_DOC, pos |-> at] IN
    IF s.null THEN Fail("PSD_ERR_NULL_POINTER", 0)
    ELSE IF oom = "doc" THEN Fail("PSD_ERR_OUT_OF_MEMORY", 0)
    ELSE With(psd_parse_header(s.head, InitDoc), LAMBDA h :
    IF h.status # "PSD_OK" THEN Fail(h.status, h.pos)
    ELSE With(psd_parse_color_mode_data(s.head, h.pos, h.doc, oom # "color_data"),
              LAMBDA c :
    IF c.status # "PSD_OK" THEN Fail(c.status, c.pos)
    ELSE With(psd_parse_resources(s.res, c.doc), LAMBDA r :
    IF r.status # "PSD_OK" THEN Fail(r.status, c.pos)
    ELSE With(psd_parse_layer_info(s.lay, r.doc), LAMBDA l :
    IF l.status # "PSD_OK" THEN Fail(l.status, c.pos)
    ELSE With(psd_parse_text_layers(l.doc, stack), LAMBDA t :
         With(psd_parse_composite_image(zip, s.tail, 0, t.doc, oom), LAMBDA ci :
         IF ci.status # "PSD_OK" /\ ci.status \notin SoftCompositeStatus
         THEN Fail(ci.status, ci.pos)
         ELSE [ret |-> "doc", status |-> "PSD_OK", doc |-> ci.doc, pos |-> ci.pos]))))))

(***************************************************************************)
(* The allocator's blocks.  A block is named by the field that points to   *)
(* it: kind, the layer (or text record) it belongs to and the channel, -1  *)
(* where there is none.                                                    *)
(***************************************************************************)
Blk(kind, i, j) == [kind |-> kind, layer |-> i, index |-> j]

\* a 'luni' block whose UTF-16 name fits its payload (the layer-record
\* parser's block loop, which replaces the legacy name by it)
RECURSIVE LuniScan(_, _)
LuniScan(data, off) ==
    LET remaining == Len(data) - off IN
    IF remaining < 12 THEN FALSE
    ELSE LET sig == Slice(data, off, 4) IN
    IF sig # SIG_8BIM /\ sig # SIG_8B64 THEN FALSE
    ELSE LET key == Slice(data, off + 4, 4)
             block_len == Be32(Slice(data, off + 8, 4))
         IN
    IF block_len > remaining - 12 THEN FALSE
    ELSE LET padded_len == IF block_len % 2 # 0 THEN block_len + 1 ELSE block_len
             block_total == 12 + padded_len
             found == /\ key = KEY_luni /\ block_len >= 4
                      /\ 4 + 2 * Be32(Slice(data, off + 12, 4)) <= block_len
         IN found \/ (block_total <= remaining /\ LuniScan(data, off + block_total))

\* layer->name is set: a non-empty Pascal name, or a 'luni' name
LayerHasName(additional_data) ==
    IF Len(additional_data) = 0 THEN FALSE
    ELSE LET a == SkipLengthPrefixed(additional_data, 0) IN
    IF a < 0 THEN FALSE
    ELSE LET b == SkipLengthPrefixed(additional_data, a) IN
    IF b < 0 \/ Len(additional_data) - b < 1 THEN FALSE
    ELSE LET c == SkipName(additional_data, b) IN
    IF c < 0 THEN FALSE
    ELSE additional_data[b + 1] > 0 \/ LuniScan(additional_data, c)

\* the blocks the layer-record parser allocates for record i (C index)
LayerRecordBlocks(layer, i) ==
    (IF layer.channel_count > 0 THEN {Blk("channels", i, -1)} ELSE {})
    \cup (IF layer.additional_length > 0 THEN {Blk("additional_data", i, -1)} ELSE {})
    \cup (IF LayerHasName(layer.additional_data) THEN {Blk("name", i, -1)} ELSE {})

\* the buffers the channel-image-data pass allocates for record i
LayerChannelBlocks(layer, i) ==
    {Blk("compressed_data", i, ch - 1) :
        ch \in {c \in 1..layer.channel_count : layer.channels[c].compressed_data # NULL}}

LayersBlocks(layers) ==
    (IF Len(layers) > 0 THEN {Blk("layers", -1, -1)} ELSE {})
    \cup UNION {LayerRecordBlocks(layers[i], i - 1) \cup LayerChannelBlocks(layers[i], i - 1) :
                i \in 1..Len(layers)}

\* what the error label of psd_parse_layer_info frees: each record's
\* channel array and extra-data, then the record array
LayerInfoErrorFrees(layers) ==
    (IF Len(layers) > 0 THEN {Blk("layers", -1, -1)} ELSE {})
    \cup UNION {(IF layers[i].channel_count > 0 THEN {Blk("channels", i - 1, -1)} ELSE {})
                \cup (IF layers[i].additional_length > 0
                      THEN {Blk("additional_data", i - 1, -1)} ELSE {}) :
                i \in 1..Len(layers)}

\* the text-layer index: the item array and each record's payload copy
TextBlocks(text_layers) ==
    (IF text_layers.count > 0 THEN {Blk("text_layers.items", -1, -1)} ELSE {})
    \cup {Blk("raw_tysh", k - 1, -1) : k \in 1..text_layers.count}

ColorBlocks(d) ==
    IF d.color_data.data # NULL THEN {Blk("color_data.data", -1, -1)} ELSE {}

ResourceBlocks(d) ==
    IF d.resources.count > 0 THEN {Blk("resources.blocks", -1, -1)} ELSE {}

CompositeBlocks(d) ==
    IF d.composite.data # NULL THEN {Blk("composite.data", -1, -1)} ELSE {}

\* every block a returned document owns
DocumentBlocks(d) ==
    {Blk("doc", -1, -1)} \cup ColorBlocks(d) \cup ResourceBlocks(d)
        \cup LayersBlocks(d.layers.layers) \cup TextBlocks(d.text_layers)
        \cup CompositeBlocks(d)

\* the blocks still allocated when psd_parse_ex returns: each failure branch
\* frees what its code frees, and a section parser that fails has freed (or
\* not) its own blocks.  A failing layer section's lay.layers are the
\* records its parser held when it jumped to its error label
psd_parse_ex_heap(s, zip, oom, stack) ==
    IF s.null THEN {}
    ELSE IF oom = "doc" THEN {}
    ELSE With(psd_parse_header(s.head, InitDoc), LAMBDA h :
    IF h.status # "PSD_OK" THEN {Blk("doc", -1, -1)} \ {Blk("doc", -1, -1)}
    ELSE With(psd_parse_color_mode_data(s.head, h.pos, h.doc, oom # "color_data"),
              LAMBDA c :
    IF c.status # "PSD_OK" THEN {Blk("doc", -1, -1)} \ {Blk("doc", -1, -1)}
    ELSE With(psd_parse_resources(s.res, c.doc), LAMBDA r :
    IF r.status # "PSD_OK"
    THEN ({Blk("doc", -1, -1)} \cup ColorBlocks(c.doc))
            \ ({Blk("doc", -1, -1)} \cup ColorBlocks(c.doc))
    ELSE With(psd_parse_layer_info(s.lay, r.doc), LAMBDA l :
    IF l.status # "PSD_OK"
    THEN ({Blk("doc", -1, -1)} \cup ColorBlocks(r.doc) \cup ResourceBlocks(r.doc)
             \cup LayersBlocks(s.lay.layers))
            \ ({Blk("doc", -1, -1)} \cup ColorBlocks(r.doc) \cup ResourceBlocks(r.doc)
                  \cup LayerInfoErrorFrees(s.lay.layers))
    ELSE With(psd_parse_text_layers(l.doc, stack), LAMBDA t :
         With(psd_parse_composite_image(zip, s.tail, 0, t.doc, oom), LAMBDA ci :
         IF ci.status # "PSD_OK" /\ ci.status \notin SoftCompositeStatus
         THEN DocumentBlocks(t.doc)
                 \ ({Blk("doc", -1, -1)} \cup ColorBlocks(t.doc) \cup ResourceBlocks(t.doc))
         ELSE DocumentBlocks(ci.doc)))))))

(***************************************************************************)
(* Input files for the parser.                                             *)
(***************************************************************************)
Header(sig, version, channels, height, width, depth, mode) ==
    sig \o Enc16(version) \o <<0, 0, 0, 0, 0, 0>> \o Enc16(channels)
        \o Enc32(height) \o Enc32(width) \o Enc16(depth) \o Enc16(mode)

ColorSection(n) == Enc32(n) \o Repeat(7, n)

Prefixes(s) == {SubSeq(s, 1, k) : k \in 0..Len(s)}

\* sample bytes of a plane
PlaneBytes(n) == [i \in 1..n |-> 16 + i]

\* a PackBits image of rows scanlines of width bytes, each one literal run,
\* behind a table of count_bytes-wide row counts
RleImage(rows, width, count_bytes) ==
    [i \in 1..(rows * count_bytes) |->
        IF count_bytes = 2 THEN Enc16(width + 1)[((i - 1) % 2) + 1]
        ELSE Enc32(width + 1)[((i - 1) % 4) + 1]]
    \o [i \in 1..(rows * (width + 1)) |->
        IF (i - 1) % (width + 1) = 0 THEN width - 1 ELSE 16 + i]

\* the stand-in DEFLATE stream of a buffer
Deflated(bytes) == <<ZMark>> \o bytes

MaxWidth == 2
MaxHeight == 2
MaxChannels == 2

\* image-data sections for a document of the given shape: every prefix of a
\* well-formed section of each compression kind, and some malformed ones
ImageDataSections(channels, height, width, depth) ==
    LET scanline == BytesPerScanline(width, depth)
        rows == height * channels
        size == rows * scanline
    IN UNION {Prefixes(<<0, 0>> \o PlaneBytes(size)),
              Prefixes(<<0, 1>> \o RleImage(rows, scanline, 2)),
              Prefixes(<<0, 1>> \o RleImage(rows, scanline, 4)),
              Prefixes(<<0, 2>> \o Deflated(PlaneBytes(size))),
              Prefixes(<<0, 3>> \o Deflated(PlaneBytes(size))),
              {<<0, 4>>, <<255, 255, 0>>, <<0, 2, 9, 9>>,
               <<0, 1>> \o RleImage(rows, scanline, 2) \o <<0>>}}

Channel(channel_id, compression, compressed_data) ==
    [channel_id |-> channel_id, compression |-> compression,
     compressed_data |-> compressed_data,
     compressed_length |-> IF compressed_data = NULL THEN 0 ELSE Len(compressed_data),
     decoded_data |-> NULL, decoded_length |-> 0, is_decoded |-> FALSE,
     \* which allocation decoded_data points into (0: none)
     decoded_at |-> 0]

Layer(flags, channels, bounds, additional_data) ==
    [flags |-> flags, channel_count |-> Len(channels), channels |-> channels,
     bounds |-> bounds,
     additional_data |-> additional_data, additional_length |-> Len(additional_data),
     features |-> ParseFeatures(additional_data)]

Bounds(top, left, bottom, right) ==
    [top |-> top, left |-> left, bottom |-> bottom, right |-> right]

\* a tagged block: signature, key, length, payload padded to an even length
Block(sig, key, payload) ==
    sig \o key \o Enc32(Len(payload)) \o payload
        \o (IF Len(payload) % 2 = 1 THEN <<0>> ELSE <<>>)

\* extra-data: mask data and blending ranges behind their lengths, the
\* Pascal name padded to 4, the blocks
ExtraData(mask, blend, name, blocks) ==
    Enc32(Len(mask)) \o mask \o Enc32(Len(blend)) \o blend
        \o <<Len(name)>> \o name \o Repeat(0, PascalTotal(Len(name)) - 1 - Len(name))
        \o blocks

PixelLayer ==
    Layer(8, <<Channel(0, 0, <<1>>)>>, Bounds(0, 0, 1, 1),
          ExtraData(<<>>, <<>>, <<65>>, <<>>))

TextLayer ==
    Layer(8, <<>>, Bounds(0, 0, 0, 0),
          ExtraData(<<>>, <<>>, <<>>, Block(SIG_8BIM, KEY_TySh, <<0, 1>>)))

ResourceSections ==
    {[status |-> "PSD_OK", count |-> 0], [status |-> "PSD_OK", count |-> 1],
     [status |-> "PSD_ERR_STREAM_EOF", count |-> 0]}

LayerSections ==
    {[status |-> "PSD_OK", layers |-> <<>>, has_transparency_layer |-> FALSE],
     [status |-> "PSD_OK", layers |-> <<TextLayer, PixelLayer>>,
      has_transparency_layer |-> TRUE],
     [status |-> "PSD_ERR_CORRUPT_DATA", layers |-> <<>>,
      has_transparency_layer |-> FALSE],
     \* the channel-image-data pass finds a compression kind above 3 behind
     \* the first layer's buffer
     [status |-> "PSD_ERR_CORRUPT_DATA",
      layers |-> <<PixelLayer, [TextLayer EXCEPT !.channel_count = 1,
                                   !.channels = <<Channel(0, 0, NULL)>>]>>,
      has_transparency_layer |-> FALSE]}

File(head, res, lay, tail) ==
    [null |-> FALSE, head |-> head, res |-> res, lay |-> lay, tail |-> tail]

EmptySections(head) ==
    File(head, [status |-> "PSD_OK", count |-> 0],
         [status |-> "PSD_OK", layers |-> <<>>, has_transparency_layer |-> FALSE], <<>>)

\* headers with each field at and around its limits, nothing after the
\* colour-mode section
BoundaryFiles ==
    {EmptySections(Header(sig, version, channels, height, width, depth, PSD_COLOR_RGB)
                   \o ColorSection(0)) :
        sig \in {PSD_SIGNATURE, SIG_8BIM},
        version \in {0, PSD_VERSION_PSD, PSD_VERSION_PSB, 3},
        channels \in {0, 1, PSD_MAX_CHANNELS, PSD_MAX_CHANNELS + 1},
        height \in {0, 1, PSD_MAX_DIMENSION_STANDARD, PSD_MAX_DIMENSION_PSB + 1},
        width \in {0, 1, PSD_MAX_DIMENSION_STANDARD, PSD_MAX_DIMENSION_STANDARD + 1,
                   PSD_MAX_DIMENSION_PSB, PSD_MAX_DIMENSION_PSB + 1},
        depth \in {0, 1, 8, 16, 24, 32}}

\* files cut short inside the header or the colour-mode section
TruncatedFiles ==
    {EmptySections(h) :
        h \in Prefixes(Header(PSD_SIGNATURE, PSD_VERSION_PSD, 3, 1, 1, 8, PSD_COLOR_INDEXED)
                       \o ColorSection(2))}

\* small documents with every kind of image-data section
SmallFiles ==
    UNION {{File(Header(PSD_SIGNATURE, version, channels, height, width, depth,
                        PSD_COLOR_GRAYSCALE) \o ColorSection(n), res, lay, tail) :
                tail \in ImageDataSections(channels, height, width, depth)} :
           version \in {PSD_VERSION_PSD, PSD_VERSION_PSB},
           channels \in 1..MaxChannels, height \in 1..MaxHeight, width \in 1..MaxWidth,
           depth \in {1, 8, 16}, n \in {0}, res \in {[status |-> "PSD_OK", count |-> 1]},
           lay \in {[status |-> "PSD_OK", layers |-> <<TextLayer, PixelLayer>>,
                     has_transparency_layer |-> TRUE]}}

\* files whose resource or layer sections fail or differ
SectionFiles ==
    {File(Header(PSD_SIGNATURE, PSD_VERSION_PSD, 1, 1, 1, 8, PSD_COLOR_GRAYSCALE)
          \o ColorSection(n), res, lay, tail) :
        n \in {0, 1}, res \in ResourceSections, lay \in LayerSections,
        tail \in {<<>>, <<0, 0, 5>>, <<0, 1>>}}

\* a layer without pixels whose extra-data holds the blocks
BlockLayer(blocks) ==
    Layer(8, <<>>, Bounds(0, 0, 0, 0), ExtraData(<<>>, <<>>, <<65>>, blocks))

TextBlockFile(layers) ==
    File(Header(PSD_SIGNATURE, PSD_VERSION_PSD, 3, 1, 1, 8, PSD_COLOR_RGB)
             \o ColorSection(0),
         [status |-> "PSD_OK", count |-> 0],
         [status |-> "PSD_OK", layers |-> layers, has_transparency_layer |-> FALSE],
         <<>>)

\* layers with text blocks of either key under either signature
TextBlockFiles ==
    {TextBlockFile(<<BlockLayer(blocks)>>) :
        blocks \in {Block(SIG_8BIM, KEY_tySh, <<0, 1>>),
                    Block(SIG_8B64, KEY_TySh, <<0, 1>>),
                    Block(SIG_8BIM, KEY_TySh, <<0, 1>>) \o Block(SIG_8BIM, KEY_tySh, <<3>>),
                    Block(SIG_8BIM, KEY_tySh, <<3>>) \o Block(SIG_8B64, KEY_TySh, <<0, 1>>),
                    Block(SIG_8BIM, KEY_lfx2, <<1>>) \o Block(SIG_8BIM, KEY_TySh, <<5>>)}}
    \cup {TextBlockFile(<<BlockLayer(Block(SIG_8BIM, KEY_tySh, <<0, 1>>)),
                          BlockLayer(Block(SIG_8B64, KEY_TySh, <<0, 2>>))>>)}

ParseInputs ==
    BoundaryFiles \cup TruncatedFiles \cup SmallFiles \cup SectionFiles
        \cup TextBlockFiles
        \cup {[EmptySections(<<>>) EXCEPT !.null = TRUE]}

AllocationSites ==
    {"none", "doc", "color_data", "composite.data", "rle.try1", "rle.try2",
     "zip.compressed"}

(***************************************************************************)
(* The parser as a state machine: a file is chosen, then parsed once.      *)
(***************************************************************************)
InitParse ==
    /\ stream \in ParseInputs
    /\ build \in {[zip |-> z] : z \in BOOLEAN}
    /\ pos = 0
    /\ pc = "start"
    /\ doc = NULL_DOC
    /\ ret = "none"
    /\ out_status = "unset"
    /\ call = [name |-> "none", oom |-> "none"]
    /\ hist = <<>>

\* psd_parse_ex(stream, allocator, &status)
ParseEx ==
    /\ pc = "start"
    /\ \E oom \in AllocationSites, stack \in Stacks :
        LET r == psd_parse_ex(stream, build.zip, oom, stack) IN
        /\ doc' = r.doc
        /\ ret' = r.ret
        /\ out_status' = r.status
        /\ pos' = r.pos
        /\ call' = [name |-> "psd_parse_ex", oom |-> oom]
        /\ hist' = psd_parse_ex_heap(stream, build.zip, oom, stack)
    /\ pc' = "done"
    /\ UNCHANGED <<stream, build>>

\* psd_parse(stream, allocator): psd_parse_ex without a status output
Parse ==
    /\ pc = "start"
    /\ \E oom \in AllocationSites, stack \in Stacks :
        LET r == psd_parse_ex(stream, build.zip, oom, stack) IN
        /\ doc' = r.doc
        /\ ret' = r.ret
        /\ pos' = r.pos
        /\ call' = [name |-> "psd_parse", oom |-> oom]
        /\ hist' = psd_parse_ex_heap(stream, build.zip, oom, stack)
    /\ out_status' = "unset"
    /\ pc' = "done"
    /\ UNCHANGED <<stream, build>>

\* psd_document_get_composite_image(doc, &data, &length, &compression)
psd_document_get_composite_image(d) ==
    IF d = NULL_DOC
    THEN [status |-> "PSD_ERR_NULL_POINTER", data |-> "unset", length |-> "unset",
          compression |-> "unset"]
    ELSE [status |-> "PSD_OK", data |-> d.composite.data,
          length |-> d.composite.data_length,
          compression |-> d.composite.compression]

\* the accessor called with what the parse returned
GetCompositeImage ==
    /\ pc = "done"
    /\ \E r \in {psd_document_get_composite_image(doc)} :
        call' = [name |-> "psd_document_get_composite_image", oom |-> call.oom,
                 status |-> r.status, data |-> r.data, length |-> r.length,
                 compression |-> r.compression]
    /\ pc' = "read"
    /\ UNCHANGED <<stream, pos, doc, ret, out_status, build, hist>>

NextParse == ParseEx \/ Parse \/ GetCompositeImage

SpecParse == InitParse /\ [][NextParse]_vars

(***************************************************************************)
(* What a file's bytes say, read at the header's fixed offsets.            *)
(***************************************************************************)
FileSignature(head) == Slice(head, 0, 4)
FileVersion(head) == Be16(Slice(head, 4, 2))
FileChannels(head) == Be16(Slice(head, 12, 2))
FileHeight(head) == Be32(Slice(head, 14, 4))
FileWidth(head) == Be32(Slice(head, 18, 4))
FileDepth(head) == Be16(Slice(head, 22, 2))

FormatMax(version) == IF version = 2 THEN 300000 ELSE 30000

HeaderInRange(head) ==
    /\ FileSignature(head) = <<56, 66, 80, 83>>
    /\ FileVersion(head) \in {1, 2}
    /\ FileChannels(head) \in 1..56
    /\ FileDepth(head) \in {1, 8, 16, 32}
    /\ FileWidth(head) >= 1 /\ FileWidth(head) <= FormatMax(FileVersion(head))
    /\ FileHeight(head) >= 1 /\ FileHeight(head) <= FormatMax(FileVersion(head))

Returned == pc = "done" /\ ret = "doc"

\* C1: a document is returned only if the header's channel count is in
\* [1, 56], its depth in {1, 8, 16, 32} and its width and height in
\* [1, 30000] (standard) or [1, 300000] (large), and the document carries
\* those values; a bad signature, a version other than 1 or 2 or a field out
\* of range returns no document.
C1_HeaderValidity ==
    /\ Returned =>
        /\ Len(stream.head) >= 26 /\ HeaderInRange(stream.head)
        /\ doc.channels = FileChannels(stream.head) /\ doc.channels \in 1..56
        /\ doc.depth = FileDepth(stream.head) /\ doc.depth \in {1, 8, 16, 32}
        /\ doc.is_psb = (FileVersion(stream.head) = 2)
        /\ doc.width = FileWidth(stream.head) /\ doc.height = FileHeight(stream.head)
        /\ doc.width \in 1..FormatMax(FileVersion(stream.head))
        /\ doc.height \in 1..FormatMax(FileVersion(stream.head))
    /\ (pc = "done" /\ ~stream.null /\ Len(stream.head) >= 26
            /\ ~HeaderInRange(stream.head)) =>
        (ret = "NULL" /\ doc = NULL_DOC)

\* a large-format document at the limits is returned
C1_Witness ==
    /\ Returned
    /\ doc.is_psb /\ doc.width = 300000 /\ doc.height = 30000
    /\ doc.channels = 56 /\ doc.depth = 32

(***************************************************************************)
(* The image-data section as the file gives it.                            *)
(***************************************************************************)
TailCompression(s) == Be16(Slice(s.tail, 0, 2))

TailSize(s) ==
    FileChannels(s.head) * FileHeight(s.head)
        * BytesPerScanline(FileWidth(s.head), FileDepth(s.head))

CompositeMissing(s) == Len(s.tail) < 2

CompositeUnsupported(s, zip) ==
    /\ Len(s.tail) >= 2
    /\ \/ TailCompression(s) > 3
       \/ TailCompression(s) \in {2, 3} /\ ~zip

\* the section ends before the bytes its compression kind requires: the
\* plane bytes (raw), the row-count table or the bytes the counts announce
\* (RLE, under either count width), any byte at all (ZIP)
CompositeShortRead(s) ==
    /\ Len(s.tail) >= 2
    /\ \/ TailCompression(s) = 0 /\ Len(s.tail) - 2 < TailSize(s)
       \/ /\ TailCompression(s) = 1
          /\ \A count_bytes \in {2, 4} :
                LET rows == FileHeight(s.head) * FileChannels(s.head)
                    t == ReadRowCounts(s.tail, 2, rows, count_bytes, 0)
                IN \/ t.status = "PSD_ERR_STREAM_EOF"
                   \/ t.sum > Len(s.tail) - t.pos
       \/ TailCompression(s) \in {2, 3} /\ Len(s.tail) = 2

SectionsParsed(s) ==
    /\ ~s.null /\ Len(s.head) >= 30 /\ HeaderInRange(s.head)
    /\ Be32(Slice(s.head, 26, 4)) = Len(s.head) - 30
    /\ s.res.status = "PSD_OK" /\ s.lay.status = "PSD_OK"

\* C7: when the image-data section is missing, ends in a short read or uses
\* an unsupported compression kind, psd_parse_ex still returns a document:
\* header, resources, layers and text index intact, no composite buffer.
C7_SoftCompositeFailure ==
    (/\ pc = "done" /\ call.name = "psd_parse_ex" /\ call.oom = "none"
     /\ SectionsParsed(stream)
     /\ \/ CompositeMissing(stream)
        \/ CompositeShortRead(stream)
        \/ CompositeUnsupported(stream, build.zip))
    => /\ ret = "doc" /\ out_status = "PSD_OK"
       /\ doc.composite.data = NULL
       /\ doc.width = FileWidth(stream.head) /\ doc.height = FileHeight(stream.head)
       /\ doc.resources.count = stream.res.count
       /\ doc.layers.layers = stream.lay.layers
       /\ doc.text_layers.count = Len(TextItemsFrom(stream.lay.layers, 1, ZeroStack))

\* an RLE section cut inside its row-count table makes the whole parse fail
C7_RleShortReadFatal ==
    /\ pc = "done" /\ call.name = "psd_parse_ex" /\ call.oom = "none"
    /\ SectionsParsed(stream)
    /\ stream.tail = <<0, 1>>
    /\ ret = "NULL" /\ out_status = "PSD_ERR_CORRUPT_DATA"

(***************************************************************************)
(* Documents for the layer accessors.                                      *)
(***************************************************************************)
\* one block of each kind the layer-record parser knows, in file order
FeatureBlocks ==
    <<Block(SIG_8BIM, KEY_lsct, Enc32(1)),
      Block(SIG_8BIM, KEY_lsct, Enc32(3)),
      Block(SIG_8BIM, KEY_TySh, <<>>),
      Block(SIG_8BIM, KEY_SoLd, <<>>),
      Block(SIG_8BIM, PREFIX_adj \o <<50>>, <<>>),
      Block(SIG_8BIM, KEY_SoCo, <<>>),
      Block(SIG_8BIM, KEY_lfx2, <<1>>),
      Block(SIG_8BIM, PREFIX_3dL \o <<114>>, <<>>),
      Block(SIG_8B64, KEY_vtrk, <<>>)>>

RECURSIVE BlocksOf(_, _, _)
BlocksOf(blocks, chosen, i) ==
    IF i > Len(blocks) THEN <<>>
    ELSE (IF i \in chosen THEN blocks[i] ELSE <<>>) \o BlocksOf(blocks, chosen, i + 1)

\* what can follow the name of a layer that may be the background: tagged
\* vector-mask blocks, other blocks, and eight bytes that are no tagged
\* block (a bare key and length)
MaskBlocks ==
    <<Block(SIG_8BIM, KEY_vmsk, <<>>),
      Block(SIG_8B64, KEY_vmns, <<0, 0>>),
      Block(SIG_8BIM, KEY_lfx2, <<1>>),
      KEY_vmsk \o Enc32(0),
      Block(SIG_8BIM, KEY_luni, Enc32(0))>>

RECURSIVE BlockSeq(_, _, _)
BlockSeq(blocks, pick, i) ==
    IF i > Len(pick) THEN <<>>
    ELSE blocks[pick[i]] \o BlockSeq(blocks, pick, i + 1)

MaxBlocks == 2

RGBChannels == <<Channel(0, 0, <<1>>), Channel(1, 0, <<2>>), Channel(2, 0, <<3>>)>>

RGBAChannels == <<Channel(-1, 0, <<255>>)>> \o RGBChannels

FeatureLayers ==
    {Layer(8, channels, Bounds(0, 0, 1, 1),
           ExtraData(<<>>, <<>>, <<65>>, BlocksOf(FeatureBlocks, chosen, 1))) :
        channels \in {<<>>, RGBChannels},
        chosen \in SUBSET (1..Len(FeatureBlocks))}

CandidateLayers ==
    {Layer(flags, channels, Bounds(0, 0, 1, 1), ExtraData(mask, <<>>, name, blocks)) :
        flags \in {8, 12, 255},
        channels \in {RGBChannels, RGBAChannels, <<Channel(0, 0, <<1>>)>>},
        mask \in {<<>>, <<0, 0>>},
        name \in {<<>>, <<65, 66, 67>>},
        blocks \in UNION {{BlockSeq(MaskBlocks, pick, 1) :
                              pick \in [1..k -> 1..Len(MaskBlocks)]} : k \in 0..MaxBlocks}}
    \cup {Layer(12, RGBChannels, Bounds(0, 0, 1, 1), extra) :
            extra \in {<<>>, <<0, 0>>, <<0, 0, 0, 0>>, <<0, 0, 0, 0, 0, 0, 0, 0, 9>>}}

\* a layer that meets the criteria 2..6 for three base channels
PlainBackground ==
    Layer(12, RGBChannels, Bounds(0, 0, 1, 1), ExtraData(<<>>, <<>>, <<>>, <<>>))

DocWithLayers(layers) ==
    [InitDoc EXCEPT !.width = 1, !.height = 1, !.channels = 3, !.depth = 8,
                    !.color_mode = PSD_COLOR_RGB,
                    !.layers = [layers |-> layers, layer_count |-> Len(layers),
                                has_transparency_layer |-> FALSE]]

LayerDocs ==
    {DocWithLayers(<<>>)}
    \cup {DocWithLayers(<<l>>) : l \in FeatureLayers \cup CandidateLayers}
    \cup {DocWithLayers(<<PlainBackground, l>>) : l \in CandidateLayers}

BaseChannelCounts == {1, 3, 4}

(***************************************************************************)
(* The layer accessors as a state machine: calls on a parsed document.     *)
(* hist is the set of indices the background predicate has returned true   *)
(* for.                                                                    *)
(***************************************************************************)
InitLayer ==
    /\ doc \in LayerDocs
    /\ stream = <<>>
    /\ build = [zip |-> TRUE]
    /\ pos = 0
    /\ pc = "ready"
    /\ ret = "none"
    /\ out_status = "unset"
    /\ call = [name |-> "none", layer_index |-> 0, base_channel_count |-> 0]
    /\ hist = {}

GetLayerType ==
    /\ pc = "ready"
    /\ \E layer_index \in -1..doc.layers.layer_count :
        LET r == psd_document_get_layer_type(doc, layer_index) IN
        /\ ret' = r.type
        /\ out_status' = r.status
        /\ call' = [name |-> "psd_document_get_layer_type",
                    layer_index |-> layer_index, base_channel_count |-> 0]
    /\ UNCHANGED <<stream, pos, pc, doc, build, hist>>

IsBackgroundLayer ==
    /\ pc = "ready"
    /\ \E layer_index \in -1..doc.layers.layer_count,
          base_channel_count \in BaseChannelCounts :
        \E r \in psd_document_is_background_layer(doc, layer_index, base_channel_count) :
            /\ ret' = r
            /\ pc' = IF r = "fault" THEN "fault" ELSE "ready"
            /\ hist' = IF r = "1" THEN hist \cup {layer_index} ELSE hist
            /\ call' = [name |-> "psd_document_is_background_layer",
                        layer_index |-> layer_index,
                        base_channel_count |-> base_channel_count]
    /\ out_status' = "unset"
    /\ UNCHANGED <<stream, pos, doc, build>>

NextLayer == GetLayerType \/ IsBackgroundLayer

SpecLayer == InitLayer /\ [][NextLayer]_vars

(***************************************************************************)
(* C2 - C4: the layer type and the background predicate.                   *)
(***************************************************************************)
\* the layer the last call named, when its index is inside the array
CalledLayer == LayerAt(doc, call.layer_index)

CallInRange == call.layer_index >= 0 /\ call.layer_index < doc.layers.layer_count

TypeOfFeature ==
    [is_group_start |-> "PSD_LAYER_TYPE_GROUP_START",
     is_group_end |-> "PSD_LAYER_TYPE_GROUP_END",
     has_text |-> "PSD_LAYER_TYPE_TEXT",
     has_smart_object |-> "PSD_LAYER_TYPE_SMART_OBJECT",
     has_adjustment |-> "PSD_LAYER_TYPE_ADJUSTMENT",
     has_fill |-> "PSD_LAYER_TYPE_FILL",
     has_effects |-> "PSD_LAYER_TYPE_EFFECTS",
     has_3d |-> "PSD_LAYER_TYPE_3D",
     has_video |-> "PSD_LAYER_TYPE_VIDEO"]

\* the type a priority order (a sequence of feature names) gives a layer: the
\* type of the first feature of the order that is set, else Pixel or Empty
TypeByPriority(order, layer) ==
    LET set == {i \in 1..Len(order) : layer.features[order[i]]} IN
    IF set # {}
    THEN TypeOfFeature[order[CHOOSE i \in set : \A j \in set : i <= j]]
    ELSE IF layer.channel_count > 0 THEN "PSD_LAYER_TYPE_PIXEL"
    ELSE "PSD_LAYER_TYPE_EMPTY"

LowerPriorities ==
    <<"has_text", "has_smart_object", "has_adjustment", "has_fill", "has_effects",
      "has_3d", "has_video">>

TypeReported ==
    /\ call.name = "psd_document_get_layer_type" /\ out_status = "PSD_OK" /\ CallInRange

BackgroundAsked == call.name = "psd_document_is_background_layer" /\ ret \in {"0", "1"}

\* C3: the predicate returns true iff the index is the last one, flags bit 2
\* is set, no channel has id -1, the layer-mask-data length is 0, no tagged
\* block with key vmsk or vmns appears in the extra-data (the layer-record
\* parser's has_vector_mask), and the channel count equals base_channels.
C3_BackgroundCriteria ==
    (BackgroundAsked /\ CallInRange) =>
        (ret = "1" <=>
            /\ call.layer_index = doc.layers.layer_count - 1
            /\ (CalledLayer.flags \div 4) % 2 = 1
            /\ \A i \in 1..CalledLayer.channel_count :
                  CalledLayer.channels[i].channel_id # -1
            /\ ~(CalledLayer.additional_length >= 4
                 /\ Be32(Slice(CalledLayer.additional_data, 0, 4)) # 0)
            /\ ~CalledLayer.features.has_vector_mask
            /\ CalledLayer.channel_count = call.base_channel_count)

\* the predicate has returned true for a layer whose extra-data holds a
\* tagged vmsk or vmns block
C3_VectorMaskMissed ==
    /\ BackgroundAsked /\ CallInRange /\ ret = "1"
    /\ CalledLayer.features.has_vector_mask

\* C4: the predicate returns true for at most one index of a document, that
\* index is layer_count - 1, and every call with another index returns
\* false.
C4_OnlyLastIndex ==
    /\ Cardinality(hist) <= 1
    /\ \A i \in hist : i = doc.layers.layer_count - 1
    /\ (call.name = "psd_document_is_background_layer"
            /\ call.layer_index # doc.layers.layer_count - 1) => ret = "0"

\* the last of two layers has been found to be the background, and the first,
\* which meets every other criterion, has just been refused
C4_Witness ==
    /\ doc.layers.layer_count = 2 /\ hist = {1}
    /\ BackgroundAsked /\ call.layer_index = 0 /\ ret = "0"
    /\ BackgroundCriteria(CalledLayer, call.base_channel_count)

(***************************************************************************)
(* Lazy channel decoding (psd_layer_decode.c).  An allocation is named by  *)
(* its serial number: alloc is [ok, serial], whether psd_alloc_malloc      *)
(* succeeds during the call and the serial of the next allocation.         *)
(***************************************************************************)
Int8(b) == IF b >= 128 THEN b - 256 ELSE b

\* psd_packbits_decode_row: si is the source index, dst the bytes produced;
\* si in the result is the number of input bytes read at the return
RECURSIVE PackbitsRowLoop(_, _, _, _)
PackbitsRowLoop(src, si, dst, dst_len) ==
    IF ~(si < Len(src) /\ Len(dst) < dst_len)
    THEN IF si # Len(src) \/ Len(dst) # dst_len
         THEN [status |-> "PSD_ERR_CORRUPT_DATA", dst |-> dst, si |-> si]
         ELSE [status |-> "PSD_OK", dst |-> dst, si |-> si]
    ELSE IF Int8(src[si + 1]) >= 0
    THEN IF si + 1 + (src[si + 1] + 1) > Len(src)
            \/ Len(dst) + (src[si + 1] + 1) > dst_len
         THEN [status |-> "PSD_ERR_CORRUPT_DATA", dst |-> dst, si |-> si + 1]
         ELSE PackbitsRowLoop(src, si + 1 + (src[si + 1] + 1),
                              dst \o Slice(src, si + 1, src[si + 1] + 1), dst_len)
    ELSE IF Int8(src[si + 1]) >= -127
    THEN IF si + 1 >= Len(src) \/ Len(dst) + (1 - Int8(src[si + 1])) > dst_len
         THEN [status |-> "PSD_ERR_CORRUPT_DATA", dst |-> dst, si |-> si + 1]
         ELSE PackbitsRowLoop(src, si + 2,
                              dst \o Repeat(src[si + 2], 1 - Int8(src[si + 1])), dst_len)
    ELSE PackbitsRowLoop(src, si + 1, dst, dst_len)

psd_packbits_decode_row(src, dst_len) == PackbitsRowLoop(src, 0, <<>>, dst_len)

RowCount(compressed, y, row_bytes) ==
    IF row_bytes = 2 THEN Be16(Slice(compressed, y * row_bytes, 2))
    ELSE Be32(Slice(compressed, y * row_bytes, 4))

RECURSIVE RowCountsLoop(_, _, _, _, _, _)
RowCountsLoop(compressed, compressed_len, height, row_bytes, y, total) ==
    IF y = height
    THEN IF compressed_len < height * row_bytes + total
         THEN [status |-> "PSD_ERR_CORRUPT_DATA", counts_size |-> 0, total |-> 0]
         ELSE [status |-> "PSD_OK", counts_size |-> height * row_bytes, total |-> total]
    ELSE IF SatAdd(total, RowCount(compressed, y, row_bytes))
                > compressed_len - height * row_bytes
    THEN [status |-> "PSD_ERR_CORRUPT_DATA", counts_size |-> 0, total |-> 0]
    ELSE RowCountsLoop(compressed, compressed_len, height, row_bytes, y + 1,
                       SatAdd(total, RowCount(compressed, y, row_bytes)))

parse_rle_row_counts(compressed, compressed_len, height, row_bytes) ==
    IF compressed_len < height * row_bytes
    THEN [status |-> "PSD_ERR_CORRUPT_DATA", counts_size |-> 0, total |-> 0]
    ELSE RowCountsLoop(compressed, compressed_len, height, row_bytes, 0, 0)

\* the choice between 2-byte and 4-byte row counts; row_count_bytes 0: neither
RleCounts(st2, st4, compressed_length) ==
    LET two == [row_count_bytes |-> 2, counts_size |-> st2.counts_size, total |-> st2.total]
        four == [row_count_bytes |-> 4, counts_size |-> st4.counts_size, total |-> st4.total]
    IN
    IF st2.status = "PSD_OK" /\ st4.status = "PSD_OK"
    THEN IF st4.counts_size + st4.total = compressed_length
            /\ st2.counts_size + st2.total # compressed_length
         THEN four ELSE two
    ELSE IF st2.status = "PSD_OK" THEN two
    ELSE IF st4.status = "PSD_OK" THEN four
    ELSE [row_count_bytes |-> 0, counts_size |-> 0, total |-> 0]

\* the row loop of the RLE case: y is the row, rle_off the offset of its data
RECURSIVE RleRowsLoop(_, _, _, _, _, _, _)
RleRowsLoop(compressed, k, height, scanline_width, y, rle_off, decoded) ==
    IF y = height THEN [status |-> "PSD_OK", decoded |-> decoded]
    ELSE IF rle_off + RowCount(compressed, y, k.row_count_bytes) > k.total
    THEN [status |-> "PSD_ERR_CORRUPT_DATA", decoded |-> <<>>]
    ELSE With(psd_packbits_decode_row(
                  Slice(compressed, k.counts_size + rle_off,
                        RowCount(compressed, y, k.row_count_bytes)),
                  scanline_width),
              LAMBDA row :
         IF row.status # "PSD_OK" THEN [status |-> row.status, decoded |-> <<>>]
         ELSE RleRowsLoop(compressed, k, height, scanline_width, y + 1,
                          rle_off + RowCount(compressed, y, k.row_count_bytes),
                          decoded \o row.dst))

ExpectedScanline(width, depth) ==
    IF depth = 1 THEN (width + 7) \div 8
    ELSE width * (IF depth >= 8 THEN depth \div 8 ELSE 1)

\* channel->decoded_data = decoded; decoded_length; is_decoded = true
Decoded_unmarked(channel, decoded, serial) ==
    [channel EXCEPT !.decoded_data = decoded, !.decoded_length = Len(decoded),
                    !.decoded_at = serial]

Decoded(channel, decoded, serial) ==
    [channel EXCEPT !.decoded_data = decoded, !.decoded_length = Len(decoded),
                    !.decoded_at = serial, !.is_decoded = TRUE]

\* the outcome of one decode: ran says whether the body after the
\* "already decoded" test was entered, mallocs how many allocations were made
DecodeResult(status, channel, ran, mallocs) ==
    [status |-> status, channel |-> channel, ran |-> ran, mallocs |-> mallocs]

\* the ZIP cases after their decompression z
ZipCase(channel, z, alloc) ==
    IF z.status = "PSD_OK"
    THEN DecodeResult("PSD_OK", Decoded(channel, z.out, alloc.serial), TRUE, 1)
    ELSE IF z.status = "PSD_ERR_UNSUPPORTED_COMPRESSION"
    THEN DecodeResult("PSD_OK",
             [channel EXCEPT !.decoded_data = NULL, !.decoded_length = 0,
                             !.decoded_at = 0, !.is_decoded = FALSE], TRUE, 1)
    ELSE DecodeResult(z.status, channel, TRUE, 1)

RleCase(channel, height, scanline_width, alloc) ==
    With(RleCounts(parse_rle_row_counts(channel.compressed_data,
                       channel.compressed_length, height, 2),
                   parse_rle_row_counts(channel.compressed_data,
                       channel.compressed_length, height, 4),
                   channel.compressed_length),
         LAMBDA k :
         IF k.row_count_bytes = 0
         THEN DecodeResult("PSD_ERR_CORRUPT_DATA", channel, TRUE, 0)
         ELSE IF ~alloc.ok
         THEN DecodeResult("PSD_ERR_OUT_OF_MEMORY", channel, TRUE, 0)
         ELSE With(RleRowsLoop(channel.compressed_data, k, height, scanline_width,
                               0, 0, <<>>),
                   LAMBDA r :
              IF r.status # "PSD_OK" THEN DecodeResult(r.status, channel, TRUE, 1)
              ELSE DecodeResult("PSD_OK", Decoded(channel, r.decoded, alloc.serial),
                                TRUE, 1)))

psd_layer_channel_decode(channel, width, height, depth, zip, alloc) ==
    LET scanline_width == ExpectedScanline(width, depth)
        expected_decoded_size == scanline_width * height
    IN
    IF channel.is_decoded /\ channel.decoded_data # NULL
    THEN DecodeResult("PSD_OK", channel, FALSE, 0)
    ELSE IF channel.compression = 0
    THEN IF channel.compressed_length < expected_decoded_size
         THEN DecodeResult("PSD_ERR_CORRUPT_DATA", channel, TRUE, 0)
         ELSE IF ~alloc.ok
         THEN DecodeResult("PSD_ERR_OUT_OF_MEMORY", channel, TRUE, 0)
         ELSE DecodeResult("PSD_OK",
                  Decoded(channel, Slice(channel.compressed_data, 0, expected_decoded_size),
                          alloc.serial), TRUE, 1)
    ELSE IF channel.compression = 1
    THEN RleCase(channel, height, scanline_width, alloc)
    ELSE IF channel.compression = 2
    THEN IF ~alloc.ok THEN DecodeResult("PSD_ERR_OUT_OF_MEMORY", channel, TRUE, 0)
         ELSE ZipCase(channel,
                  psd_zip_decompress(zip, channel.compressed_data, expected_decoded_size),
                  alloc)
    ELSE IF channel.compression = 3
    THEN IF ~alloc.ok THEN DecodeResult("PSD_ERR_OUT_OF_MEMORY", channel, TRUE, 0)
         ELSE ZipCase(channel,
                  psd_zip_decompress_with_prediction(zip, channel.compressed_data,
                      expected_decoded_size, scanline_width,
                      IF depth = 1 THEN 1 ELSE depth \div 8),
                  alloc)
    ELSE DecodeResult("PSD_ERR_UNSUPPORTED_COMPRESSION", channel, TRUE, 0)

(***************************************************************************)
(* psd_document_get_layer_channel_data.  A returned pointer is             *)
(* [buf, at, bytes]: which buffer of the channel it points to ("decoded",  *)
(* "compressed" or "NULL"), the allocation, and the bytes there.           *)
(***************************************************************************)
NullData == [buf |-> "NULL", at |-> 0, bytes |-> <<>>]

ChannelData(channel) ==
    IF channel.decoded_data # NULL
    THEN [buf |-> "decoded", at |-> channel.decoded_at, bytes |-> channel.decoded_data]
    ELSE [buf |-> "compressed", at |-> 0, bytes |-> channel.compressed_data]

ChannelLength(channel) ==
    IF channel.decoded_data # NULL THEN channel.decoded_length
    ELSE channel.compressed_length

ChannelOf(d, layer_index, channel_index) ==
    d.layers.layers[layer_index + 1].channels[channel_index + 1]

ChannelDepth(d, channel) ==
    IF channel.channel_id = -2 \/ channel.channel_id = -3 THEN 8 ELSE d.depth

WithChannel(d, layer_index, channel_index, channel) ==
    [d EXCEPT !.layers.layers[layer_index + 1].channels[channel_index + 1] = channel]

AccessResult(status, channel_id, data, length, compression, d, ran, mallocs) ==
    [status |-> status, channel_id |-> channel_id, data |-> data, length |-> length,
     compression |-> compression, doc |-> d, ran |-> ran, mallocs |-> mallocs]

\* the part after the lazy decode: r is the decode's outcome (DecodeResult)
ReturnChannel(d, layer_index, channel_index, r) ==
    IF r.status # "PSD_OK" /\ r.status # "PSD_ERR_UNSUPPORTED_COMPRESSION"
    THEN AccessResult(r.status, 0, NullData, 0, 0,
                      WithChannel(d, layer_index, channel_index, r.channel),
                      r.ran, r.mallocs)
    ELSE IF r.channel.decoded_data = NULL /\ r.channel.compressed_data = NULL
    THEN AccessResult("PSD_ERR_CORRUPT_DATA", r.channel.channel_id, NullData, 0, 0,
                      WithChannel(d, layer_index, channel_index, r.channel),
                      r.ran, r.mallocs)
    ELSE AccessResult(IF r.channel.compression > 3 THEN "PSD_ERR_CORRUPT_DATA"
                      ELSE "PSD_OK",
                      r.channel.channel_id, ChannelData(r.channel),
                      ChannelLength(r.channel), r.channel.compression,
                      WithChannel(d, layer_index, channel_index, r.channel),
                      r.ran, r.mallocs)

psd_document_get_layer_channel_data(d, layer_index, channel_index, zip, alloc) ==
    IF d = NULL_DOC
    THEN AccessResult("PSD_ERR_NULL_POINTER", 0, NullData, 0, 0, d, FALSE, 0)
    ELSE IF layer_index < 0 \/ layer_index >= d.layers.layer_count
    THEN AccessResult("PSD_ERR_OUT_OF_RANGE", 0, NullData, 0, 0, d, FALSE, 0)
    ELSE IF channel_index >= LayerAt(d, layer_index).channel_count
    THEN AccessResult("PSD_ERR_OUT_OF_RANGE", 0, NullData, 0, 0, d, FALSE, 0)
    ELSE IF LayerAt(d, layer_index).bounds.right - LayerAt(d, layer_index).bounds.left = 0
            \/ LayerAt(d, layer_index).bounds.bottom - LayerAt(d, layer_index).bounds.top = 0
    THEN AccessResult("PSD_OK", 0, NullData, 0, 0, d, FALSE, 0)
    ELSE IF ~ChannelOf(d, layer_index, channel_index).is_decoded
    THEN ReturnChannel(d, layer_index, channel_index,
             psd_layer_channel_decode(
                 ChannelOf(d, layer_index, channel_index),
                 LayerAt(d, layer_index).bounds.right - LayerAt(d, layer_index).bounds.left,
                 LayerAt(d, layer_index).bounds.bottom - LayerAt(d, layer_index).bounds.top,
                 ChannelDepth(d, ChannelOf(d, layer_index, channel_index)), zip, alloc))
    ELSE ReturnChannel(d, layer_index, channel_index,
             DecodeResult("PSD_OK", ChannelOf(d, layer_index, channel_index), FALSE, 0))

(***************************************************************************)
(* The renderer (psd_render.c).  A plane pointer is a buffer and an offset *)
(* into it.  A read past the end of the buffer is undefined: env.ub is     *)
(* what it yields, a byte or -1 for a trap.  The Lab conversion is         *)
(* floating-point arithmetic, which is not modelled: env.lab is the r, g,  *)
(* b it produces.                                                          *)
(***************************************************************************)
bytes_per_sample(depth_bits) ==
    IF depth_bits = 8 THEN 1
    ELSE IF depth_bits = 16 THEN 2
    ELSE IF depth_bits = 32 THEN 4
    ELSE IF depth_bits = 1 THEN 0
    ELSE 1

NULL_PLANE == [null |-> TRUE, buf |-> <<>>, base |-> 0]

Plane(buf, base) == [null |-> FALSE, buf |-> buf, base |-> base]

InPlane(p, off) == p.base + off < Len(p.buf)

PlaneRead(p, off, ub) == IF InPlane(p, off) THEN p.buf[p.base + off + 1] ELSE ub

\* p[0] for every depth
sample_to_u8(p, off, depth_bits, ub) == PlaneRead(p, off, ub)

\* p0 .. p4 of the pixel loop: planes[k] if it is counted and not NULL
PlaneAt(planes, plane_count, k) ==
    IF (k = 0 \/ plane_count > k) /\ ~planes[k + 1].null THEN planes[k + 1]
    ELSE NULL_PLANE

\* the planes a pixel of the mode reads, each with the bytes read per sample
PlanesRead(mode, depth_bits) ==
    IF mode = PSD_COLOR_RGB THEN {<<0, 1>>, <<1, 1>>, <<2, 1>>, <<3, 1>>}
    ELSE IF mode \in {PSD_COLOR_GRAYSCALE, PSD_COLOR_DUOTONE, PSD_COLOR_INDEXED}
    THEN {<<0, 1>>, <<1, 1>>}
    ELSE IF mode = PSD_COLOR_CMYK
    THEN {<<0, 1>>, <<1, 1>>, <<2, 1>>, <<3, 1>>, <<4, 1>>}
    ELSE IF mode = PSD_COLOR_LAB
    THEN {<<k, IF depth_bits = 8 THEN 1 ELSE 2>> : k \in 0..2} \cup {<<3, 1>>}
    ELSE {}

Sample(planes, plane_count, k, off, depth_bits, ub, default) ==
    IF PlaneAt(planes, plane_count, k).null THEN default
    ELSE sample_to_u8(PlaneAt(planes, plane_count, k), off, depth_bits, ub)

Clamp255(v) == IF v > 255 THEN 255 ELSE v

\* one pixel of a document that is not 1 bit deep: [status, rgba]
Pixel(a, off) ==
    LET S(k, default) ==
            Sample(a.planes, a.plane_count, k, off, a.depth_bits, a.env.ub, default)
        Px(r, g, b, al) == [status |-> "PSD_OK", rgba |-> <<r, g, b, al>>]
    IN
    IF a.mode = PSD_COLOR_RGB
    THEN Px(S(0, 0), S(1, S(0, 0)), S(2, S(0, 0)), S(3, 255))
    ELSE IF a.mode = PSD_COLOR_GRAYSCALE \/ a.mode = PSD_COLOR_DUOTONE
    THEN Px(S(0, 0), S(0, 0), S(0, 0), S(1, 255))
    ELSE IF a.mode = PSD_COLOR_INDEXED
    THEN IF a.color_mode_data # NULL /\ a.color_mode_data_len >= 768
         THEN Px(a.color_mode_data[S(0, 0) + 1], a.color_mode_data[256 + S(0, 0) + 1],
                 a.color_mode_data[512 + S(0, 0) + 1], S(1, 255))
         ELSE Px(S(0, 0), S(0, 0), S(0, 0), S(1, 255))
    ELSE IF a.mode = PSD_COLOR_CMYK
    THEN Px(255 - Clamp255(S(0, 0) + S(3, 0)), 255 - Clamp255(S(1, 0) + S(3, 0)),
            255 - Clamp255(S(2, 0) + S(3, 0)), S(4, 255))
    ELSE IF a.mode = PSD_COLOR_LAB
    THEN IF \E k \in 0..2 : PlaneAt(a.planes, a.plane_count, k).null
         THEN [status |-> "PSD_ERR_CORRUPT_DATA", rgba |-> <<>>]
         ELSE Px(a.env.lab[1], a.env.lab[2], a.env.lab[3], S(3, 255))
    ELSE [status |-> "PSD_ERR_UNSUPPORTED_COLOR_MODE", rgba |-> <<>>]

\* one pixel of a 1-bit document: bit 7 - (x & 7) of the row's byte
BitOf(byte, bit) == (byte \div (2 ^ bit)) % 2

BitmapPixel(a, x, y) ==
    IF a.planes[1].null THEN [status |-> "PSD_ERR_CORRUPT_DATA", rgba |-> <<>>]
    ELSE LET v == IF BitOf(PlaneRead(a.planes[1],
                                     y * ((a.width + 7) \div 8) + (x \div 8), a.env.ub),
                           7 - (x % 8)) = 1
                  THEN 255 ELSE 0
         IN [status |-> "PSD_OK", rgba |-> <<v, v, v, 255>>]

\* does the pixel at (x, y) read past the end of a plane's buffer
ReadsPastEnd(a, x, y) ==
    IF a.depth_bits = 1
    THEN ~a.planes[1].null
         /\ ~InPlane(a.planes[1], y * ((a.width + 7) \div 8) + (x \div 8))
    ELSE \E u \in PlanesRead(a.mode, a.depth_bits) :
            /\ ~PlaneAt(a.planes, a.plane_count, u[1]).null
            /\ ~InPlane(PlaneAt(a.planes, a.plane_count, u[1]),
                        (y * a.width + x) * bytes_per_sample(a.depth_bits) + u[2] - 1)
            /\ (a.mode = PSD_COLOR_LAB =>
                    \A k \in 0..2 : ~PlaneAt(a.planes, a.plane_count, k).null)

\* the pixel loop: i counts the pixels done, out is what has been written
RECURSIVE RenderLoop(_, _, _)
RenderLoop(a, i, out) ==
    IF i = a.width * a.height THEN [status |-> "PSD_OK", out |-> out]
    ELSE IF ReadsPastEnd(a, i % a.width, i \div a.width) /\ a.env.ub = -1
    THEN [status |-> "fault", out |-> out]
    ELSE With(IF a.depth_bits = 1 THEN BitmapPixel(a, i % a.width, i \div a.width)
              ELSE Pixel(a, i * bytes_per_sample(a.depth_bits)),
              LAMBDA px :
         IF px.status # "PSD_OK" THEN [status |-> px.status, out |-> out]
         ELSE RenderLoop(a, i + 1, out \o px.rgba))

\* out is [null, size]: out_rgba and out_rgba_size.  The result holds what
\* *out_required_size was set to (-1: not written) and the bytes written
RenderResult(status, required_size, out) ==
    [status |-> status, required_size |-> required_size, out |-> out]

render_planar_to_rgba8(a, out) ==
    IF out.null \/ out.size < a.width * a.height * 4
    THEN RenderResult("PSD_ERR_BUFFER_TOO_SMALL", a.width * a.height * 4, <<>>)
    ELSE IF a.width = 0 \/ a.height = 0
    THEN RenderResult("PSD_OK", a.width * a.height * 4, <<>>)
    ELSE IF ~(a.depth_bits = 1 \/ a.depth_bits = 8 \/ a.depth_bits = 16)
    THEN RenderResult("PSD_ERR_UNSUPPORTED_FEATURE", a.width * a.height * 4, <<>>)
    ELSE With(RenderLoop(a, 0, <<>>), LAMBDA r :
              RenderResult(r.status, a.width * a.height * 4, r.out))

PlaneBytesOf(depth_bits, width, height) ==
    IF depth_bits = 1 THEN ((width + 7) \div 8) * height
    ELSE width * height * bytes_per_sample(depth_bits)

psd_document_render_composite_rgba8_ex(d, out, env) ==
    IF d = NULL_DOC THEN RenderResult("PSD_ERR_NULL_POINTER", -1, <<>>)
    ELSE IF d.composite.data = NULL \/ d.composite.data_length = 0
    THEN RenderResult("PSD_ERR_INVALID_ARGUMENT", -1, <<>>)
    ELSE IF d.depth # 1 /\ bytes_per_sample(d.depth) = 0
    THEN RenderResult("PSD_ERR_INVALID_ARGUMENT", -1, <<>>)
    ELSE IF d.channels = 0 \/ PlaneBytesOf(d.depth, d.width, d.height) = 0
    THEN RenderResult("PSD_ERR_CORRUPT_DATA", -1, <<>>)
    ELSE IF d.composite.data_length < d.channels * PlaneBytesOf(d.depth, d.width, d.height)
    THEN RenderResult("PSD_ERR_CORRUPT_DATA", -1, <<>>)
    ELSE render_planar_to_rgba8(
             [mode |-> d.color_mode, depth_bits |-> d.depth,
              width |-> d.width, height |-> d.height,
              planes |-> [i \in 1..5 |->
                             IF i <= Min(d.channels, 5)
                             THEN Plane(d.composite.data,
                                        (i - 1) * PlaneBytesOf(d.depth, d.width, d.height))
                             ELSE NULL_PLANE],
              plane_count |-> Min(d.channels, 5),
              color_mode_data |-> d.color_data.data,
              color_mode_data_len |-> d.color_data.length,
              env |-> env],
             out)

\* the channel loop of the layer renderer: i is the channel index, s holds
\* the document, planes[0..4], and for each channel done whether its decode
\* ran and the allocations made
RECURSIVE LayerPlanes(_, _, _, _, _, _)
LayerPlanes(layer_index, i, channel_count, zip, alloc, s) ==
    IF i >= channel_count THEN s
    ELSE With(psd_document_get_layer_channel_data(s.doc, layer_index, i, zip,
                  [alloc EXCEPT !.serial = alloc.serial + s.mallocs]),
              LAMBDA r :
         LayerPlanes(layer_index, i + 1, channel_count, zip, alloc,
             [doc |-> r.doc,
              planes |->
                  IF r.status # "PSD_OK" \/ r.data.buf = "NULL" \/ r.length = 0
                  THEN s.planes
                  ELSE IF r.channel_id >= 0 /\ r.channel_id < 4
                  THEN [s.planes EXCEPT ![r.channel_id + 1] = Plane(r.data.bytes, 0)]
                  ELSE IF r.channel_id = -1
                  THEN [s.planes EXCEPT ![5] = Plane(r.data.bytes, 0)]
                  ELSE s.planes,
              ran |-> Append(s.ran, r.ran),
              mallocs |-> s.mallocs + r.mallocs]))

\* ordered[] and plane_count for the document's colour mode; count 0: the
\* mode has no case
OrderedPlanes(mode, planes) ==
    IF mode = PSD_COLOR_RGB \/ mode = PSD_COLOR_LAB
    THEN [ordered |-> <<planes[1], planes[2], planes[3], planes[5], NULL_PLANE>>,
          plane_count |-> IF planes[5].null THEN 3 ELSE 4]
    ELSE IF mode \in {PSD_COLOR_GRAYSCALE, PSD_COLOR_DUOTONE, PSD_COLOR_INDEXED}
    THEN [ordered |-> <<planes[1], planes[5], NULL_PLANE, NULL_PLANE, NULL_PLANE>>,
          plane_count |-> IF planes[5].null THEN 1 ELSE 2]
    ELSE IF mode = PSD_COLOR_CMYK
    THEN [ordered |-> <<planes[1], planes[2], planes[3], planes[4], planes[5]>>,
          plane_count |-> IF planes[5].null THEN 4 ELSE 5]
    ELSE [ordered |-> <<>>, plane_count |-> 0]

LayerRenderResult(r, d, ran, mallocs) ==
    [status |-> r.status, required_size |-> r.required_size, out |-> r.out,
     doc |-> d, ran |-> ran, mallocs |-> mallocs]

LayerWidth(layer) ==
    IF layer.bounds.right > layer.bounds.left
    THEN layer.bounds.right - layer.bounds.left ELSE 0

LayerHeight(layer) ==
    IF layer.bounds.bottom > layer.bounds.top
    THEN layer.bounds.bottom - layer.bounds.top ELSE 0

\* the layer renderer from the channel loop on; s is the loop's outcome
RenderLayerPlanes(d, layer_index, out, env, s) ==
    IF OrderedPlanes(d.color_mode, s.planes).plane_count = 0
    THEN LayerRenderResult(
             RenderResult("PSD_ERR_UNSUPPORTED_COLOR_MODE",
                 LayerWidth(LayerAt(d, layer_index))
                     * LayerHeight(LayerAt(d, layer_index)) * 4, <<>>),
             s.doc, s.ran, s.mallocs)
    ELSE LayerRenderResult(
             render_planar_to_rgba8(
                 [mode |-> d.color_mode, depth_bits |-> d.depth,
                  width |-> LayerWidth(LayerAt(d, layer_index)),
                  height |-> LayerHeight(LayerAt(d, layer_index)),
                  planes |-> OrderedPlanes(d.color_mode, s.planes).ordered,
                  plane_count |-> OrderedPlanes(d.color_mode, s.planes).plane_count,
                  color_mode_data |-> d.color_data.data,
                  color_mode_data_len |-> d.color_data.length,
                  env |-> env],
                 out),
             s.doc, s.ran, s.mallocs)

psd_document_render_layer_rgba8(d, layer_index, out, zip, alloc, env) ==
    LET Early(status, required_size) ==
            LayerRenderResult(RenderResult(status, required_size, <<>>), d, <<>>, 0)
    IN
    IF d = NULL_DOC THEN Early("PSD_ERR_NULL_POINTER", -1)
    ELSE IF layer_index < 0 \/ layer_index >= d.layers.layer_count
    THEN Early("PSD_ERR_OUT_OF_RANGE", -1)
    ELSE IF out.null \/ out.size < LayerWidth(LayerAt(d, layer_index))
                                     * LayerHeight(LayerAt(d, layer_index)) * 4
    THEN Early("PSD_ERR_BUFFER_TOO_SMALL",
               LayerWidth(LayerAt(d, layer_index))
                   * LayerHeight(LayerAt(d, layer_index)) * 4)
    ELSE IF LayerWidth(LayerAt(d, layer_index)) = 0
            \/ LayerHeight(LayerAt(d, layer_index)) = 0
    THEN Early("PSD_OK", 0)
    ELSE RenderLayerPlanes(d, layer_index, out, env,
             LayerPlanes(layer_index, 0, LayerAt(d, layer_index).channel_count, zip,
                 alloc,
                 [doc |-> d, planes |-> [k \in 1..5 |-> NULL_PLANE], ran |-> <<>>,
                  mallocs |-> 0]))

(***************************************************************************)
(* Descriptors (psd_descriptor.c) and the lazy parse of a text layer's     *)
(* descriptors (psd_text_layer.c).  The stream is the payload and a        *)
(* position.  oom names the allocation that fails, if any.  Values of the  *)
(* kinds with a fixed size, TEXT and unknown kinds are modelled; the kinds *)
(* with structure (enum, 'ref ', raws, type, 'Obj ', VlLs) do not occur in *)
(* the payloads of this model.                                             *)
(***************************************************************************)
PSD_DESC_INTEGER == <<108, 111, 110, 103>>
PSD_DESC_DOUBLE == <<100, 111, 117, 98>>
PSD_DESC_UNIT_FLOAT == <<85, 110, 116, 70>>
PSD_DESC_UNIT_VALUE == <<85, 110, 116, 86>>
PSD_DESC_BOOLEAN == <<98, 111, 111, 108>>
PSD_DESC_STRING == <<84, 69, 88, 84>>
KEY_Txt == <<84, 120, 116, 32>>

psd_skip_unicode_string(data, p) ==
    IF ~CanRead(data, p, 4) THEN [status |-> "PSD_ERR_STREAM_EOF", pos |-> Len(data)]
    ELSE IF Be32(Slice(data, p, 4)) = 0 THEN [status |-> "PSD_OK", pos |-> p + 4]
    ELSE IF Be32(Slice(data, p, 4)) > 1000000
    THEN [status |-> "PSD_ERR_CORRUPT_DATA", pos |-> p + 4]
    ELSE IF ~CanRead(data, p + 4, Be32(Slice(data, p, 4)) * 2)
    THEN [status |-> "PSD_ERR_STREAM_EOF", pos |-> Len(data)]
    ELSE [status |-> "PSD_OK", pos |-> p + 4 + Be32(Slice(data, p, 4)) * 2]

psd_parse_class_id(data, p, oom) ==
    LET Failed(st, at) == [status |-> st, id |-> NULL, pos |-> at] IN
    IF ~CanRead(data, p, 4) THEN Failed("PSD_ERR_STREAM_EOF", Len(data))
    ELSE IF Be32(Slice(data, p, 4)) = 0
    THEN IF ~CanRead(data, p + 4, 4) THEN Failed("PSD_ERR_STREAM_EOF", Len(data))
         ELSE IF oom = "class_id" THEN Failed("PSD_ERR_OUT_OF_MEMORY", p + 8)
         ELSE [status |-> "PSD_OK", id |-> Slice(data, p + 4, 4), pos |-> p + 8]
    ELSE IF oom = "class_id" THEN Failed("PSD_ERR_OUT_OF_MEMORY", p + 4)
    ELSE IF ~CanRead(data, p + 4, Be32(Slice(data, p, 4)))
    THEN Failed("PSD_ERR_STREAM_EOF", Len(data))
    ELSE [status |-> "PSD_OK", id |-> Slice(data, p + 4, Be32(Slice(data, p, 4))),
          pos |-> p + 4 + Be32(Slice(data, p, 4))]

\* psd_utf8_encode: the bytes of the code point cp
psd_utf8_encode(cp) ==
    IF cp <= 127 THEN <<cp>>
    ELSE IF cp <= 2047 THEN <<192 + (cp \div 64), 128 + (cp % 64)>>
    ELSE IF cp <= 65535
    THEN <<224 + (cp \div 4096), 128 + ((cp \div 64) % 64), 128 + (cp % 64)>>
    ELSE <<240 + (cp \div 262144), 128 + ((cp \div 4096) % 64),
           128 + ((cp \div 64) % 64), 128 + (cp % 64)>>

\* the loop of psd_utf16be_to_utf8: i is the input offset, out the bytes made
RECURSIVE Utf16Loop(_, _, _)
Utf16Loop(in, i, out) ==
    IF ~(i + 1 < Len(in)) THEN out
    ELSE IF Be16(Slice(in, i, 2)) >= 55296 /\ Be16(Slice(in, i, 2)) <= 56319
            /\ i + 3 < Len(in)
    THEN IF Be16(Slice(in, i + 2, 2)) >= 56320 /\ Be16(Slice(in, i + 2, 2)) <= 57343
         THEN Utf16Loop(in, i + 4,
                  out \o psd_utf8_encode(65536 + (Be16(Slice(in, i, 2)) - 55296) * 1024
                                               + (Be16(Slice(in, i + 2, 2)) - 56320)))
         ELSE Utf16Loop(in, i + 2, out \o psd_utf8_encode(65533))
    ELSE IF Be16(Slice(in, i, 2)) < 55296 \/ Be16(Slice(in, i, 2)) > 57343
    THEN Utf16Loop(in, i + 2, out \o psd_utf8_encode(Be16(Slice(in, i, 2))))
    ELSE Utf16Loop(in, i + 2, out \o psd_utf8_encode(65533))

psd_utf16be_to_utf8(in) == Utf16Loop(in, 0, <<>>)

\* strlen of the NUL-terminated buffer holding bytes
RECURSIVE StrLen(_, _)
StrLen(bytes, i) ==
    IF i >= Len(bytes) \/ bytes[i + 1] = 0 THEN i ELSE StrLen(bytes, i + 1)

\* a TEXT value: psd_parse_unicode_string, then data_length = strlen
psd_parse_unicode_string(data, p, type_id, oom) ==
    IF ~CanRead(data, p, 4)
    THEN [status |-> "PSD_ERR_STREAM_EOF", value |-> NULL, pos |-> Len(data)]
    ELSE IF oom = "value"
    THEN [status |-> "PSD_ERR_OUT_OF_MEMORY", value |-> NULL, pos |-> p + 4]
    ELSE IF Be32(Slice(data, p, 4)) = 0
    THEN [status |-> "PSD_OK",
          value |-> [type_id |-> type_id, raw_data |-> <<>>, data_length |-> 0],
          pos |-> p + 4]
    ELSE IF ~CanRead(data, p + 4, Be32(Slice(data, p, 4)) * 2)
    THEN [status |-> "PSD_ERR_STREAM_EOF", value |-> NULL, pos |-> Len(data)]
    ELSE [status |-> "PSD_OK",
          value |-> [type_id |-> type_id,
                     raw_data |-> psd_utf16be_to_utf8(
                                      Slice(data, p + 4, Be32(Slice(data, p, 4)) * 2)),
                     data_length |-> StrLen(psd_utf16be_to_utf8(
                                      Slice(data, p + 4, Be32(Slice(data, p, 4)) * 2)), 0)],
          pos |-> p + 4 + Be32(Slice(data, p, 4)) * 2]

\* the size of a value of a fixed-size kind, 0 for the other kinds
FixedSize(type_id) ==
    IF type_id = PSD_DESC_INTEGER THEN 4
    ELSE IF type_id = PSD_DESC_DOUBLE THEN 8
    ELSE IF type_id = PSD_DESC_UNIT_FLOAT \/ type_id = PSD_DESC_UNIT_VALUE THEN 12
    ELSE IF type_id = PSD_DESC_BOOLEAN THEN 1
    ELSE 0

\* n bytes of raw data at p
RawValue(data, p, n, type_id, oom) ==
    IF oom = "value"
    THEN [status |-> "PSD_ERR_OUT_OF_MEMORY", value |-> NULL, pos |-> p]
    ELSE IF ~CanRead(data, p, n)
    THEN [status |-> "PSD_ERR_STREAM_EOF", value |-> NULL, pos |-> Len(data)]
    ELSE [status |-> "PSD_OK",
          value |-> [type_id |-> type_id, raw_data |-> Slice(data, p, n),
                     data_length |-> n],
          pos |-> p + n]

psd_parse_descriptor_value(data, p, type_id, oom) ==
    IF FixedSize(type_id) > 0 THEN RawValue(data, p, FixedSize(type_id), type_id, oom)
    ELSE IF type_id = PSD_DESC_STRING
    THEN psd_parse_unicode_string(data, p, type_id, oom)
    ELSE IF ~CanRead(data, p, 4)
    THEN [status |-> "PSD_ERR_STREAM_EOF", value |-> NULL, pos |-> Len(data)]
    ELSE IF Be32(Slice(data, p, 4)) > 100 * 1024 * 1024
    THEN [status |-> "PSD_ERR_CORRUPT_DATA", value |-> NULL, pos |-> p + 4]
    ELSE IF Be32(Slice(data, p, 4)) = 0
    THEN [status |-> "PSD_OK",
          value |-> [type_id |-> type_id, raw_data |-> NULL, data_length |-> 0],
          pos |-> p + 4]
    ELSE RawValue(data, p + 4, Be32(Slice(data, p, 4)), type_id, oom)

\* the property loop: left properties to go, props those parsed
RECURSIVE ParseProperties(_, _, _, _, _)
ParseProperties(data, p, left, oom, props) ==
    IF left = 0 THEN [status |-> "PSD_OK", props |-> props, pos |-> p]
    ELSE With(psd_parse_class_id(data, p, oom), LAMBDA key :
         IF key.status # "PSD_OK"
         THEN [status |-> key.status, props |-> <<>>, pos |-> key.pos]
         ELSE IF ~CanRead(data, key.pos, 4)
         THEN [status |-> "PSD_ERR_STREAM_EOF", props |-> <<>>, pos |-> Len(data)]
         ELSE With(psd_parse_descriptor_value(data, key.pos + 4,
                       Slice(data, key.pos, 4), oom),
                   LAMBDA v :
              IF v.status # "PSD_OK"
              THEN [status |-> v.status, props |-> <<>>, pos |-> v.pos]
              ELSE ParseProperties(data, v.pos, left - 1, oom,
                       Append(props, [key |-> key.id, value |-> v.value]))))

\* the class id of the descriptor: variant A (a Unicode name first), then
\* after a rewind variant B (the class id alone)
DescriptorClassId(data, p, oom) ==
    With(psd_skip_unicode_string(data, p), LAMBDA name :
    With(IF name.status = "PSD_OK" THEN psd_parse_class_id(data, name.pos, oom)
         ELSE [status |-> name.status, id |-> NULL, pos |-> name.pos],
         LAMBDA variant_a :
         IF variant_a.status = "PSD_OK" THEN variant_a
         ELSE psd_parse_class_id(data, p, oom)))

\* the descriptor from its property count on; cid is the class id read
DescriptorBody(data, cid, oom) ==
    LET Failed(st, at) == [status |-> st, descriptor |-> NULL_DESC, pos |-> at] IN
    IF ~CanRead(data, cid.pos, 4) THEN Failed("PSD_ERR_STREAM_EOF", Len(data))
    ELSE IF Be32(Slice(data, cid.pos, 4)) > 1000000
    THEN Failed("PSD_ERR_CORRUPT_DATA", cid.pos + 4)
    ELSE IF Be32(Slice(data, cid.pos, 4)) > 0 /\ oom = "properties"
    THEN Failed("PSD_ERR_OUT_OF_MEMORY", cid.pos + 4)
    ELSE With(ParseProperties(data, cid.pos + 4, Be32(Slice(data, cid.pos, 4)), oom, <<>>),
              LAMBDA props :
         IF props.status # "PSD_OK" THEN Failed(props.status, props.pos)
         ELSE [status |-> "PSD_OK",
               descriptor |-> [class_id |-> cid.id, properties |-> props.props,
                               property_count |-> Len(props.props)],
               pos |-> props.pos])

psd_parse_descriptor(data, p, oom) ==
    IF oom = "descriptor"
    THEN [status |-> "PSD_ERR_OUT_OF_MEMORY", descriptor |-> NULL_DESC, pos |-> p]
    ELSE With(DescriptorClassId(data, p, oom), LAMBDA cid :
         IF cid.status # "PSD_OK"
         THEN [status |-> cid.status, descriptor |-> NULL_DESC, pos |-> cid.pos]
         ELSE DescriptorBody(data, cid, oom))

\* the optional warp descriptor behind the text descriptor at position p
WarpData(data, p, oom) ==
    IF ~CanRead(data, p, 2) \/ ~CanRead(data, p + 2, 4) THEN NULL_DESC
    ELSE psd_parse_descriptor(data, p + 6, oom).descriptor

\* [status, item, ran]: ran says whether a parse of the payload was started
AlreadyParsed_never(item) == FALSE

\* "Already parsed? Return success"
AlreadyParsed(item) == item.text_data # NULL_DESC

psd_text_layer_ensure_descriptors_parsed(item, oom) ==
    LET Outcome(st, it, ran) == [status |-> st, item |-> it, ran |-> ran] IN
    IF AlreadyParsed(item) THEN Outcome("PSD_OK", item, FALSE)
    ELSE IF item.raw_tysh = NULL \/ item.raw_tysh_len = 0
    THEN Outcome("PSD_ERR_CORRUPT_DATA", item, FALSE)
    ELSE IF oom = "text.stream" THEN Outcome("PSD_ERR_OUT_OF_MEMORY", item, TRUE)
    ELSE IF ~CanRead(item.raw_tysh, 0, 2) \/ ~CanRead(item.raw_tysh, 2, 48)
            \/ ~CanRead(item.raw_tysh, 50, 2) \/ ~CanRead(item.raw_tysh, 52, 4)
    THEN Outcome("PSD_ERR_STREAM_EOF", item, TRUE)
    ELSE With(psd_parse_descriptor(item.raw_tysh, 56, oom), LAMBDA text :
         IF text.status # "PSD_OK" THEN Outcome(text.status, item, TRUE)
         ELSE Outcome("PSD_OK",
                  [item EXCEPT !.text_data = text.descriptor,
                               !.warp_data = WarpData(item.raw_tysh, text.pos, oom)],
                  TRUE))

\* psd_find_text_layer_mut: the index of the first record of the layer, 0 if
\* there is none
RECURSIVE FindTextLayer(_, _, _)
FindTextLayer(items, layer_index, i) ==
    IF i > Len(items) THEN 0
    ELSE IF items[i].layer_index = layer_index THEN i
    ELSE FindTextLayer(items, layer_index, i + 1)

RECURSIVE FindString(_, _, _)
FindString(properties, key, i) ==
    IF i > Len(properties) THEN "PSD_ERR_INVALID_STRUCTURE"
    ELSE IF properties[i].key = key
    THEN IF properties[i].value.type_id = PSD_DESC_STRING
            /\ properties[i].value.raw_data # NULL
         THEN "PSD_OK" ELSE "PSD_ERR_INVALID_STRUCTURE"
    ELSE FindString(properties, key, i + 1)

psd_descriptor_find_string_recursive(desc, key) == FindString(desc.properties, key, 1)

\* psd_text_layer_get_text with a buffer to fill: [status, doc, ran]
psd_text_layer_get_text(d, layer_index, oom) ==
    IF d = NULL_DOC THEN [status |-> "PSD_ERR_NULL_POINTER", doc |-> d, ran |-> FALSE]
    ELSE IF FindTextLayer(d.text_layers.items, layer_index, 1) = 0
    THEN [status |-> "PSD_ERR_CORRUPT_DATA", doc |-> d, ran |-> FALSE]
    ELSE With(psd_text_layer_ensure_descriptors_parsed(
                  d.text_layers.items[FindTextLayer(d.text_layers.items, layer_index, 1)],
                  oom),
              LAMBDA e :
         [status |-> IF e.status # "PSD_OK" THEN e.status
                     ELSE psd_descriptor_find_string_recursive(e.item.text_data, KEY_Txt),
          doc |-> [d EXCEPT !.text_layers.items[
                       FindTextLayer(d.text_layers.items, layer_index, 1)] = e.item],
          ran |-> e.ran])

KEY_EngineData == <<69, 110, 103, 105, 110, 101, 68, 97, 116, 97>>

RECURSIVE FindRaw(_, _, _)
FindRaw(properties, key, i) ==
    IF i > Len(properties) THEN [status |-> "PSD_ERR_INVALID_STRUCTURE", len |-> 0]
    ELSE IF properties[i].key = key
    THEN IF properties[i].value.raw_data # NULL /\ properties[i].value.data_length > 0
         THEN [status |-> "PSD_OK", len |-> properties[i].value.data_length]
         ELSE [status |-> "PSD_ERR_INVALID_STRUCTURE", len |-> 0]
    ELSE FindRaw(properties, key, i + 1)

psd_descriptor_find_raw_recursive(desc, key) == FindRaw(desc.properties, key, 1)

\* [status, item, ran, length]
psd_text_layer_get_engine_data_raw(d, layer_index, oom) ==
    With(psd_text_layer_ensure_descriptors_parsed(
             d.text_layers.items[FindTextLayer(d.text_layers.items, layer_index, 1)], oom),
         LAMBDA e :
         IF e.status # "PSD_OK"
         THEN [status |-> e.status, item |-> e.item, ran |-> e.ran, length |-> 0]
         ELSE [status |-> psd_descriptor_find_raw_recursive(e.item.text_data,
                                                            KEY_EngineData).status,
               item |-> e.item, ran |-> e.ran,
               length |-> psd_descriptor_find_raw_recursive(e.item.text_data,
                                                            KEY_EngineData).len])

\* psd_text_layer_get_default_style with a style to fill: [status, doc, ran].
\* The extraction of the style from the EngineData text is string processing
\* that is not modelled: style is the status it ends with
psd_text_layer_get_default_style(d, layer_index, oom, style) ==
    IF d = NULL_DOC THEN [status |-> "PSD_ERR_NULL_POINTER", doc |-> d, ran |-> FALSE]
    ELSE IF FindTextLayer(d.text_layers.items, layer_index, 1) = 0
    THEN [status |-> "PSD_ERR_CORRUPT_DATA", doc |-> d, ran |-> FALSE]
    ELSE With(psd_text_layer_get_engine_data_raw(d, layer_index, oom), LAMBDA e :
         [status |-> IF e.status # "PSD_OK" THEN e.status
                     ELSE IF e.length = 0 THEN "PSD_ERR_INVALID_STRUCTURE"
                     ELSE style,
          doc |-> [d EXCEPT !.text_layers.items[
                       FindTextLayer(d.text_layers.items, layer_index, 1)] = e.item],
          ran |-> e.ran])

\* psd_text_layer_get_matrix_bounds with a matrix and bounds to fill
psd_text_layer_get_matrix_bounds(d, layer_index) ==
    IF d = NULL_DOC THEN [status |-> "PSD_ERR_NULL_POINTER", doc |-> d, ran |-> FALSE]
    ELSE IF FindTextLayer(d.text_layers.items, layer_index, 1) = 0
    THEN [status |-> "PSD_ERR_CORRUPT_DATA", doc |-> d, ran |-> FALSE]
    ELSE [status |-> "PSD_OK", doc |-> d, ran |-> FALSE]

(***************************************************************************)
(* Documents for the calls on a parsed document: each is what psd_parse_ex *)
(* makes of a file.                                                        *)
(***************************************************************************)
ColorModes ==
    {PSD_COLOR_BITMAP, PSD_COLOR_GRAYSCALE, PSD_COLOR_INDEXED, PSD_COLOR_RGB,
     PSD_COLOR_CMYK, PSD_COLOR_MULTICHANNEL, PSD_COLOR_DUOTONE, PSD_COLOR_LAB}

NoResources == [status |-> "PSD_OK", count |-> 0]

NoLayers == [status |-> "PSD_OK", layers |-> <<>>, has_transparency_layer |-> FALSE]

\* files with a raw composite image, or with none
CompositeFiles ==
    UNION {{File(Header(PSD_SIGNATURE, PSD_VERSION_PSD, channels, height, width, depth, mode)
                 \o ColorSection(0), NoResources, NoLayers, tail) :
                tail \in {<<>>, <<0, 0>> \o PlaneBytes(channels * height
                                              * BytesPerScanline(width, depth))}} :
           channels \in {1, 3, 4, 5}, height \in 1..MaxHeight, width \in 1..MaxWidth,
           depth \in {1, 8, 16, 32}, mode \in ColorModes}
    \cup {File(Header(PSD_SIGNATURE, PSD_VERSION_PSD, 1, 1, 1, 8, PSD_COLOR_INDEXED)
               \o ColorSection(768), NoResources, NoLayers, <<0, 0, 9>>)}

\* the channel data of a plane of one scanline of width bytes, stored in
\* each compression kind, well-formed and not
ChannelPayloads(width) ==
    {[compression |-> 0, data |-> PlaneBytes(width)],
     [compression |-> 0, data |-> PlaneBytes(width - 1)],
     [compression |-> 0, data |-> NULL],
     [compression |-> 1, data |-> RleImage(1, width, 2)],
     [compression |-> 1, data |-> RleImage(1, width, 4)],
     [compression |-> 1, data |-> Enc16(2) \o <<0, 5>>],
     [compression |-> 2, data |-> Deflated(PlaneBytes(width))],
     [compression |-> 2, data |-> <<9>>],
     [compression |-> 3, data |-> Deflated(PlaneBytes(width))],
     [compression |-> 4, data |-> PlaneBytes(width)]}

\* layers one row high with the channels ids: the first with each payload,
\* the others raw
ChannelLayers(ids, width, depth) ==
    {Layer(8, [i \in 1..Len(ids) |->
                  IF i = 1 THEN Channel(ids[i], first.compression, first.data)
                  ELSE Channel(ids[i], 0, PlaneBytes(ExpectedScanline(width, depth)))],
           Bounds(0, 0, 1, width), ExtraData(<<>>, <<>>, <<65>>, <<>>)) :
        first \in ChannelPayloads(ExpectedScanline(width, depth))}

RawLayer(ids, width, height, depth) ==
    Layer(8, [i \in 1..Len(ids) |->
                 Channel(ids[i], 0, PlaneBytes(height * ExpectedScanline(width, depth)))],
          Bounds(0, 0, height, width), ExtraData(<<>>, <<>>, <<65>>, <<>>))

LayerFile(depth, mode, layers) ==
    File(Header(PSD_SIGNATURE, PSD_VERSION_PSD, 3, 1, 1, depth, mode) \o ColorSection(0),
         NoResources,
         [status |-> "PSD_OK", layers |-> layers, has_transparency_layer |-> FALSE],
         <<>>)

LayerFiles ==
    {LayerFile(8, PSD_COLOR_RGB, <<l>>) :
        l \in ChannelLayers(<<0, -1>>, MaxWidth, 8)}
    \cup {LayerFile(depth, mode, <<RawLayer(<<0>>, 1, MaxHeight, depth)>>) :
            depth \in {1, 8, 16, 32}, mode \in ColorModes}
    \cup {LayerFile(8, mode, <<RawLayer(<<0, 1, 2>>, 1, 1, 8)>>) :
            mode \in {PSD_COLOR_RGB, PSD_COLOR_LAB}}
    \cup {LayerFile(16, PSD_COLOR_GRAYSCALE, <<RawLayer(<<-2, 0>>, 1, 1, 16)>>)}
    \cup {LayerFile(8, PSD_COLOR_RGB, <<RawLayer(<<0>>, w, h, 8)>>) :
            w \in {0, 1}, h \in {0, 1}}

\* TySh payloads: version, transform, text version, descriptor version, the
\* text descriptor, and possibly the warp descriptor
OSType(id) == Enc32(0) \o id

\* a key or class id: an OSType, or a string with its length
KeyBytes(id) == IF Len(id) = 4 THEN OSType(id) ELSE Enc32(Len(id)) \o id

DescriptorBytes(named, properties) ==
    (IF named THEN Enc32(0) ELSE <<>>) \o OSType(<<84, 120, 76, 114>>)
        \o Enc32(Len(properties))
        \o (IF Len(properties) = 0 THEN <<>>
            ELSE KeyBytes(properties[1].key) \o properties[1].type_id
                     \o properties[1].bytes)

TyShPayload(descriptor, warp) ==
    Enc16(1) \o Repeat(0, 48) \o Enc16(50) \o Enc32(16) \o descriptor \o warp

TextProperties ==
    {<<>>,
     <<[key |-> <<67, 110, 116, 32>>, type_id |-> PSD_DESC_INTEGER, bytes |-> Enc32(7)]>>,
     <<[key |-> KEY_Txt, type_id |-> PSD_DESC_BOOLEAN, bytes |-> <<1>>]>>,
     <<[key |-> KEY_Txt, type_id |-> PSD_DESC_STRING, bytes |-> Enc32(2) \o <<0, 65, 0, 233>>]>>,
     <<[key |-> KEY_Txt, type_id |-> PSD_DESC_STRING, bytes |-> Enc32(0)]>>,
     <<[key |-> KEY_EngineData, type_id |-> <<116, 100, 116, 97>>,
        bytes |-> Enc32(1) \o <<47>>]>>,
     <<[key |-> <<88, 120, 120, 120>>, type_id |-> <<88, 88, 88, 88>>,
        bytes |-> Enc32(2) \o <<1, 2>>]>>}

TyShPayloads ==
    {TyShPayload(DescriptorBytes(named, properties), warp) :
        named \in BOOLEAN, properties \in TextProperties,
        warp \in {<<>>, Enc16(1) \o Enc32(16) \o DescriptorBytes(TRUE, <<>>),
                  Enc16(1) \o Enc32(16) \o <<0>>}}
    \cup {SubSeq(TyShPayload(DescriptorBytes(TRUE, <<>>), <<>>), 1, k) :
            k \in {0, 1, 40, 51, 55, 60, 66, 70}}

TextFiles ==
    {LayerFile(8, PSD_COLOR_RGB,
               <<Layer(8, <<>>, Bounds(0, 0, 0, 0),
                       ExtraData(<<>>, <<>>, <<>>, Block(SIG_8BIM, KEY_TySh, payload)))>>) :
        payload \in TyShPayloads}

RenderFiles == CompositeFiles \cup LayerFiles \cup TextFiles

(***************************************************************************)
(* Calls on a parsed document as a state machine.  hist keeps what the     *)
(* calls so far did:                                                       *)
(*   mallocs      allocations made for channel planes (the last serial)    *)
(*   runs         per channel, how often its decode ran                    *)
(*   first        per channel, the buffer it was first decoded into        *)
(*   failed       per channel, the status of its first failed request      *)
(*   required     the size the last size query reported, and for what      *)
(*   text_runs    per layer, how often a parse of its payload started      *)
(*   text_failed  per layer, the status of its first failed parse          *)
(*   text_cached  per layer, the descriptor at its first successful        *)
(*                text-content call, and text_runs then                    *)
(***************************************************************************)
MaxRuns == 2

ChannelKeys(d) ==
    UNION {{<<l, c>> : c \in 0..(LayerAt(d, l).channel_count - 1)} :
           l \in 0..(d.layers.layer_count - 1)}

NotDecoded == [at |-> 0, bytes |-> <<>>, runs |-> 0]

\* what an access leaves in the environment of one malloc
Allocators(h) == {[ok |-> ok, serial |-> h.mallocs + 1] : ok \in BOOLEAN}

Environments ==
    {[ub |-> -1, lab |-> <<0, 0, 0>>], [ub |-> 0, lab |-> <<255, 128, 0>>],
     [ub |-> 255, lab |-> <<0, 0, 0>>]}

NotCached == [ok |-> FALSE, data |-> NULL_DESC, runs |-> 0]

TextAllocationSites ==
    {"none", "text.stream", "descriptor", "class_id", "properties", "value"}

\* a document parsed from one of the files
InitWith(files) ==
    /\ build \in {[zip |-> z] : z \in BOOLEAN}
    /\ stream \in files
    /\ \E stack \in Stacks : doc = psd_parse_ex(stream, build.zip, "none", stack).doc
    /\ pos = 0
    /\ pc = "ready"
    /\ ret = "doc"
    /\ out_status = "PSD_OK"
    /\ call = [name |-> "none"]
    /\ hist = [mallocs |-> 0,
               runs |-> [k \in ChannelKeys(doc) |-> 0],
               first |-> [k \in ChannelKeys(doc) |-> NotDecoded],
               failed |-> [k \in ChannelKeys(doc) |-> "none"],
               required |-> [target |-> <<"none", 0>>, size |-> -1],
               text_runs |-> [l \in 0..(doc.layers.layer_count - 1) |-> 0],
               text_failed |-> [l \in 0..(doc.layers.layer_count - 1) |-> "none"],
               text_cached |-> [l \in 0..(doc.layers.layer_count - 1) |-> NotCached]]

InitRender == InitWith(RenderFiles)

\* hist after a call that left the document d and whose decodes ran as ran
\* says (per channel key) with mallocs allocations; status is the status the
\* request for the channel key returned, if the call was such a request
ChannelHistory(h, d, ran, mallocs, key, status) ==
    [h EXCEPT
        !.mallocs = h.mallocs + mallocs,
        !.runs = [k \in DOMAIN h.runs |-> h.runs[k] + (IF k \in ran THEN 1 ELSE 0)],
        !.first = [k \in DOMAIN h.first |->
                      IF h.first[k].at = 0 /\ ChannelOf(d, k[1], k[2]).decoded_data # NULL
                      THEN [at |-> ChannelOf(d, k[1], k[2]).decoded_at,
                            bytes |-> ChannelOf(d, k[1], k[2]).decoded_data,
                            runs |-> h.runs[k] + (IF k \in ran THEN 1 ELSE 0)]
                      ELSE h.first[k]],
        !.failed = [k \in DOMAIN h.failed |->
                       IF k = key /\ h.failed[k] = "none" /\ status # "PSD_OK"
                       THEN status ELSE h.failed[k]]]

WithinRuns(h) == \A k \in DOMAIN h.runs : h.runs[k] <= MaxRuns

\* psd_document_get_layer_channel_data(doc, layer_index, channel_index, ...)
GetLayerChannelData ==
    /\ pc = "ready"
    /\ \E layer_index \in 0..doc.layers.layer_count, alloc \in Allocators(hist) :
       \E channel_index \in 0..(IF layer_index < doc.layers.layer_count
                                THEN LayerAt(doc, layer_index).channel_count ELSE 0) :
       \E r \in {psd_document_get_layer_channel_data(doc, layer_index, channel_index,
                                                     build.zip, alloc)} :
       \E h \in {ChannelHistory(hist, r.doc,
                                IF r.ran THEN {<<layer_index, channel_index>>} ELSE {},
                                r.mallocs, <<layer_index, channel_index>>, r.status)} :
          /\ WithinRuns(h)
          /\ doc' = r.doc
          /\ hist' = h
          /\ out_status' = r.status
          /\ call' = [name |-> "psd_document_get_layer_channel_data",
                      layer_index |-> layer_index, channel_index |-> channel_index,
                      status |-> r.status, channel_id |-> r.channel_id,
                      data |-> r.data, length |-> r.length,
                      compression |-> r.compression,
                      ran |-> r.ran, mallocs |-> r.mallocs,
                      decoded_before |->
                          <<layer_index, channel_index>> \in ChannelKeys(doc)
                          /\ hist.first[<<layer_index, channel_index>>].at # 0]
    /\ UNCHANGED <<stream, pos, pc, ret, build>>

\* the output buffers a caller passes for target: none (the size query), or,
\* after a size query for the target, one of the size reported or one byte
\* smaller
OutBuffers(h, target) ==
    {[null |-> TRUE, size |-> 0]}
    \cup (IF h.required.target = target
          THEN {[null |-> FALSE, size |-> n] :
                    n \in {h.required.size - 1, h.required.size} \cap Nat}
          ELSE {})

Required(h, target, required_size) ==
    IF required_size >= 0 THEN [target |-> target, size |-> required_size]
    ELSE h.required

\* psd_document_render_composite_rgba8(doc, out_rgba, out_rgba_size, &required)
RenderComposite ==
    /\ pc = "ready"
    /\ \E out \in OutBuffers(hist, <<"composite", 0>>), env \in Environments :
       \E r \in {psd_document_render_composite_rgba8_ex(doc, out, env)} :
          /\ out_status' = r.status
          /\ pc' = IF r.status = "fault" THEN "fault" ELSE "ready"
          /\ hist' = [hist EXCEPT
                         !.required = Required(hist, <<"composite", 0>>, r.required_size)]
          /\ call' = [name |-> "psd_document_render_composite_rgba8",
                      out |-> out, status |-> r.status,
                      required_size |-> r.required_size, written |-> r.out]
    /\ UNCHANGED <<stream, pos, doc, ret, build>>

\* psd_document_render_layer_rgba8(doc, layer_index, out_rgba, size, &required)
RenderLayer ==
    /\ pc = "ready"
    /\ \E layer_index \in 0..doc.layers.layer_count, alloc \in Allocators(hist),
          env \in Environments :
       \E out \in OutBuffers(hist, <<"layer", layer_index>>) :
       \E r \in {psd_document_render_layer_rgba8(doc, layer_index, out, build.zip,
                                                 alloc, env)} :
       \E h \in {ChannelHistory(hist, r.doc,
                                {<<layer_index, c - 1>> : c \in {i \in 1..Len(r.ran) : r.ran[i]}},
                                r.mallocs, <<-1, -1>>, "PSD_OK")} :
          /\ WithinRuns(h)
          /\ doc' = r.doc
          /\ out_status' = r.status
          /\ pc' = IF r.status = "fault" THEN "fault" ELSE "ready"
          /\ hist' = [h EXCEPT
                         !.required = Required(hist, <<"layer", layer_index>>,
                                               r.required_size)]
          /\ call' = [name |-> "psd_document_render_layer_rgba8",
                      layer_index |-> layer_index,
                      out |-> out, status |-> r.status,
                      required_size |-> r.required_size, written |-> r.out,
                      ran |-> r.ran, mallocs |-> r.mallocs]
    /\ UNCHANGED <<stream, pos, ret, build>>

\* the descriptors of the layer's text record in document d
TextItemOf(d, layer_index) ==
    d.text_layers.items[FindTextLayer(d.text_layers.items, layer_index, 1)]

\* hist after a text-layer call on layer_index with outcome r; content says
\* whether it was a text-content call
TextHistory(h, layer_index, r, content) ==
    [h EXCEPT
        !.text_runs[layer_index] = @ + (IF r.ran THEN 1 ELSE 0),
        !.text_failed[layer_index] =
            IF @ = "none" /\ r.ran /\ TextItemOf(r.doc, layer_index).text_data = NULL_DESC
            THEN r.status ELSE @,
        !.text_cached[layer_index] =
            IF ~@.ok /\ content /\ r.status = "PSD_OK"
            THEN [ok |-> TRUE, data |-> TextItemOf(r.doc, layer_index).text_data,
                  runs |-> h.text_runs[layer_index] + (IF r.ran THEN 1 ELSE 0)]
            ELSE @]

TextCall(name, layer_index, r) ==
    [name |-> name, layer_index |-> layer_index, status |-> r.status, ran |-> r.ran,
     cached_before |-> hist.text_cached[layer_index].ok]

\* where a call that reads through the layer's text_data pointer leaves the
\* program: a pointer that was never assigned may point to what reads as an
\* empty descriptor, or nowhere
DescriptorRead(d, layer_index) ==
    IF FindTextLayer(d.text_layers.items, layer_index, 1) # 0
       /\ TextItemOf(d, layer_index).text_data = WILD_DESC
    THEN {"ready", "fault"} ELSE {"ready"}

\* psd_text_layer_get_text(doc, layer_index, buffer, buffer_size)
TextLayerGetText ==
    /\ pc = "ready"
    /\ \E layer_index \in 0..(doc.layers.layer_count - 1), oom \in TextAllocationSites :
       \E r \in {psd_text_layer_get_text(doc, layer_index, oom)} :
          /\ hist.text_runs[layer_index] + (IF r.ran THEN 1 ELSE 0) <= MaxRuns
          /\ doc' = r.doc
          /\ out_status' = r.status
          /\ hist' = TextHistory(hist, layer_index, r, TRUE)
          /\ call' = TextCall("psd_text_layer_get_text", layer_index, r)
          /\ pc' \in DescriptorRead(doc, layer_index)
    /\ UNCHANGED <<stream, pos, ret, build>>

StyleOutcomes == {"PSD_OK", "PSD_ERR_INVALID_STRUCTURE"}

\* psd_text_layer_get_default_style(doc, layer_index, &style)
TextLayerGetDefaultStyle ==
    /\ pc = "ready"
    /\ \E layer_index \in 0..(doc.layers.layer_count - 1), oom \in TextAllocationSites,
          style \in StyleOutcomes :
       \E r \in {psd_text_layer_get_default_style(doc, layer_index, oom, style)} :
          /\ hist.text_runs[layer_index] + (IF r.ran THEN 1 ELSE 0) <= MaxRuns
          /\ doc' = r.doc
          /\ out_status' = r.status
          /\ hist' = TextHistory(hist, layer_index, r, FALSE)
          /\ call' = TextCall("psd_text_layer_get_default_style", layer_index, r)
          /\ pc' \in DescriptorRead(doc, layer_index)
    /\ UNCHANGED <<stream, pos, ret, build>>

\* the call, were it to read the transform (six doubles) from the byte
\* source again
TextLayerGetMatrixBounds_rereading ==
    /\ pc = "ready"
    /\ \E layer_index \in 0..(doc.layers.layer_count - 1) :
       \E r \in {psd_text_layer_get_matrix_bounds(doc, layer_index)} :
          /\ doc' = r.doc
          /\ out_status' = r.status
          /\ hist' = TextHistory(hist, layer_index, r, FALSE)
          /\ call' = TextCall("psd_text_layer_get_matrix_bounds", layer_index, r)
    /\ pos' = pos + 48
    /\ UNCHANGED <<stream, pc, ret, build>>

\* psd_text_layer_get_matrix_bounds(doc, layer_index, &matrix, &bounds)
TextLayerGetMatrixBounds ==
    /\ pc = "ready"
    /\ \E layer_index \in 0..(doc.layers.layer_count - 1) :
       \E r \in {psd_text_layer_get_matrix_bounds(doc, layer_index)} :
          /\ doc' = r.doc
          /\ out_status' = r.status
          /\ hist' = TextHistory(hist, layer_index, r, FALSE)
          /\ call' = TextCall("psd_text_layer_get_matrix_bounds", layer_index, r)
    /\ UNCHANGED <<stream, pos, pc, ret, build>>

NextRender ==
    \/ GetLayerChannelData \/ RenderComposite \/ RenderLayer
    \/ TextLayerGetText \/ TextLayerGetDefaultStyle \/ TextLayerGetMatrixBounds

SpecRender == InitRender /\ [][NextRender]_vars

(***************************************************************************)
(* C5, C6: rendering.                                                      *)
(***************************************************************************)
CompositeRendered == call.name = "psd_document_render_composite_rgba8"

LayerRendered == call.name = "psd_document_render_layer_rgba8"

\* the colour modes the renderer has a rule for, with the planes the rule
\* cannot do without
Renderable(d, planes) ==
    \/ d.color_mode \in {PSD_COLOR_GRAYSCALE, PSD_COLOR_INDEXED, PSD_COLOR_RGB,
                         PSD_COLOR_CMYK, PSD_COLOR_DUOTONE}
    \/ d.color_mode = PSD_COLOR_LAB /\ planes >= 3
    \/ d.color_mode = PSD_COLOR_BITMAP /\ d.depth = 1

HasComposite(d) == d.composite.data # NULL /\ d.composite.data_length > 0

\* a layer with channels and non-empty bounds
PixelLayerAt(d, layer_index) ==
    /\ layer_index < d.layers.layer_count
    /\ LayerAt(d, layer_index).channel_count > 0
    /\ LayerWidth(LayerAt(d, layer_index)) > 0
    /\ LayerHeight(LayerAt(d, layer_index)) > 0

\* the two calls of the protocol, for an output of n bytes: the size query
\* reports n, the call with a buffer of n bytes succeeds and writes n bytes
TwoCalls(n) ==
    /\ call.out.null => call.required_size = n
    /\ (~call.out.null /\ call.out.size = n) =>
           (call.status = "PSD_OK" /\ Len(call.written) = n)

\* C5: for a document with a composite buffer, and for a pixel layer with
\* non-empty bounds, in a supported colour mode, the size query reports
\* width x height x 4 and the following call with a buffer of exactly that
\* size succeeds and writes exactly that many bytes.
C5_TwoCallProtocol ==
    /\ (CompositeRendered /\ HasComposite(doc) /\ Renderable(doc, doc.channels)) =>
           TwoCalls(doc.width * doc.height * 4)
    /\ (LayerRendered /\ PixelLayerAt(doc, call.layer_index)
            /\ Renderable(doc, LayerAt(doc, call.layer_index).channel_count)) =>
           TwoCalls((LayerAt(doc, call.layer_index).bounds.right
                         - LayerAt(doc, call.layer_index).bounds.left)
                    * (LayerAt(doc, call.layer_index).bounds.bottom
                           - LayerAt(doc, call.layer_index).bounds.top) * 4)

\* a pixel layer of a 32-bit RGB document: the size was reported, and the
\* call with a buffer of that size is refused
C5_LayerRefusedAfterQuery ==
    /\ LayerRendered /\ PixelLayerAt(doc, call.layer_index)
    /\ doc.color_mode = PSD_COLOR_RGB /\ doc.depth = 32
    /\ ~call.out.null
    /\ hist.required = [target |-> <<"layer", call.layer_index>>, size |-> call.out.size]
    /\ call.required_size = call.out.size
    /\ call.status = "PSD_ERR_UNSUPPORTED_FEATURE"
    /\ call.written = <<>>

\* C6: every header-valid depth of more than one bit is reduced to 8 bits by
\* taking the first (most significant) byte of each sample, so rendering a
\* document of depth 8, 16 or 32 in a supported colour mode into a buffer of
\* width x height x 4 bytes succeeds and writes that many bytes; for RGB the
\* red byte of pixel i is the first byte of sample i of plane 0.
C6_EveryDepthRenders ==
    (/\ CompositeRendered /\ HasComposite(doc) /\ Renderable(doc, doc.channels)
     /\ doc.depth \in {8, 16, 32}
     /\ ~call.out.null /\ call.out.size = doc.width * doc.height * 4) =>
        /\ call.status = "PSD_OK"
        /\ Len(call.written) = doc.width * doc.height * 4
        /\ doc.color_mode = PSD_COLOR_RGB =>
               \A i \in 0..(doc.width * doc.height - 1) :
                   call.written[4 * i + 1] = doc.composite.data[i * (doc.depth \div 8) + 1]

\* the composite of a 32-bit RGB document is refused
C6_Depth32Refused ==
    /\ CompositeRendered /\ HasComposite(doc)
    /\ doc.color_mode = PSD_COLOR_RGB /\ doc.depth = 32 /\ doc.channels = 3
    /\ ~call.out.null /\ call.out.size = doc.width * doc.height * 4
    /\ call.status = "PSD_ERR_UNSUPPORTED_FEATURE"
    /\ call.written = <<>>

(***************************************************************************)
(* C8 - C10: lazy channel decoding and the descriptor cache.               *)
(***************************************************************************)
ChannelRequested == call.name = "psd_document_get_layer_channel_data"

RequestedKey == <<call.layer_index, call.channel_index>>

RequestedChannel == ChannelOf(doc, call.layer_index, call.channel_index)

\* C8: in a build without DEFLATE a request for a ZIP or ZIP+predict channel
\* of a layer with non-empty bounds returns unsupported-compression (unless
\* the allocator failed) and leaves the channel undecoded; it never returns
\* success with bytes that are not the decoded plane.
C8_ZipReportedUnsupported ==
    (/\ ChannelRequested /\ ~build.zip
     /\ RequestedKey \in ChannelKeys(doc)
     /\ PixelLayerAt(doc, call.layer_index)
     /\ RequestedChannel.compression \in {2, 3}
     /\ call.status # "PSD_ERR_OUT_OF_MEMORY") =>
        /\ call.status = "PSD_ERR_UNSUPPORTED_COMPRESSION"
        /\ ~RequestedChannel.is_decoded
        /\ ~(call.status = "PSD_OK" /\ call.data.buf # "decoded")

\* without DEFLATE, the request for a ZIP channel succeeded and returned the
\* compressed bytes
C8_CompressedBytesAsSuccess ==
    /\ ChannelRequested /\ ~build.zip
    /\ RequestedKey \in ChannelKeys(doc)
    /\ RequestedChannel.compression = 2
    /\ call.status = "PSD_OK"
    /\ call.data = [buf |-> "compressed", at |-> 0,
                    bytes |-> RequestedChannel.compressed_data]
    /\ call.length = RequestedChannel.compressed_length
    /\ ~RequestedChannel.is_decoded

\* C9: once a channel has been decoded, it stays decoded into the same
\* allocation with the same bytes and length and its decode never runs
\* again, whatever requests and layer renderings follow; a later request for
\* it succeeds, returns that buffer and its length, and allocates nothing.
C9_DecodeIdempotent ==
    /\ \A k \in DOMAIN hist.first :
          hist.first[k].at # 0 =>
              /\ ChannelOf(doc, k[1], k[2]).is_decoded
              /\ ChannelOf(doc, k[1], k[2]).decoded_at = hist.first[k].at
              /\ ChannelOf(doc, k[1], k[2]).decoded_data = hist.first[k].bytes
              /\ ChannelOf(doc, k[1], k[2]).decoded_length = Len(hist.first[k].bytes)
              /\ hist.runs[k] = hist.first[k].runs
    /\ (ChannelRequested /\ call.decoded_before) =>
          /\ call.status = "PSD_OK"
          /\ call.data = [buf |-> "decoded", at |-> hist.first[RequestedKey].at,
                          bytes |-> hist.first[RequestedKey].bytes]
          /\ call.length = Len(hist.first[RequestedKey].bytes)
          /\ ~call.ran
          /\ call.mallocs = 0

\* a channel is requested again after another channel of the layer was
\* decoded in between
C9_Witness ==
    /\ ChannelRequested /\ call.decoded_before
    /\ \E k \in DOMAIN hist.first :
          /\ k # RequestedKey
          /\ hist.first[k].at > hist.first[RequestedKey].at
    /\ Len(call.data.bytes) > 0

\* C10: a channel's decode and a text layer's descriptor parse run at most
\* once; after a failed request the channel stays undecoded and every later
\* request reports the same status, and likewise for the descriptors.
C10_AtMostOneTransition ==
    /\ \A k \in DOMAIN hist.runs :
          /\ hist.runs[k] <= 1
          /\ hist.failed[k] # "none" =>
                 /\ ChannelOf(doc, k[1], k[2]).decoded_data = NULL
                 /\ (ChannelRequested /\ RequestedKey = k) =>
                        call.status = hist.failed[k]
    /\ \A l \in DOMAIN hist.text_runs :
          /\ hist.text_runs[l] <= 1
          /\ (hist.text_failed[l] # "none"
                  /\ call.name = "psd_text_layer_get_text" /\ call.layer_index = l) =>
                 call.status = hist.text_failed[l]

\* the decode of an RLE channel with a corrupt row ran twice, allocating
\* each time, and failed both times
C10_FailureRetried ==
    \E k \in DOMAIN hist.runs :
        /\ hist.runs[k] = 2
        /\ hist.mallocs = 2
        /\ hist.failed[k] = "PSD_ERR_CORRUPT_DATA"
        /\ ChannelOf(doc, k[1], k[2]).compression = 1
        /\ ~ChannelOf(doc, k[1], k[2]).is_decoded
        /\ ChannelRequested /\ RequestedKey = k /\ call.ran /\ call.mallocs = 1

(***************************************************************************)
(* C11: the lazy parse of text descriptors.                                *)
(***************************************************************************)
TextCalled ==
    call.name \in {"psd_text_layer_get_text", "psd_text_layer_get_default_style",
                   "psd_text_layer_get_matrix_bounds"}

IsTextLayer(d, l) == FindTextLayer(d.text_layers.items, l, 1) # 0

\* C11: text descriptors are not parsed before the first request for text
\* content or default style (not by the parse of the file, not by a
\* matrix/bounds call); from the first successful text-content call on, the
\* layer's text descriptor stays the one cached then, and no later
\* text-content, default-style or matrix/bounds call on the layer parses the
\* payload again.
C11_DescriptorCached ==
    /\ \A l \in DOMAIN hist.text_runs :
          /\ (IsTextLayer(doc, l) /\ hist.text_runs[l] = 0) =>
                 \/ TextItemOf(doc, l).text_data = NULL_DESC
                 \* no descriptor either: a pointer never assigned
                 \/ TextItemOf(doc, l).text_data = WILD_DESC
          /\ hist.text_cached[l].ok =>
                 /\ TextItemOf(doc, l).text_data = hist.text_cached[l].data
                 /\ hist.text_cached[l].data # NULL_DESC
                 /\ hist.text_runs[l] = hist.text_cached[l].runs
    /\ (call.name = "psd_text_layer_get_matrix_bounds") => ~call.ran
    /\ (TextCalled /\ call.cached_before) => ~call.ran

\* a default-style call on a layer after its first successful
\* text-content call, which parsed the payload
C11_Witness ==
    /\ call.name = "psd_text_layer_get_default_style"
    /\ call.cached_before /\ call.status = "PSD_ERR_INVALID_STRUCTURE"
    /\ hist.text_cached[call.layer_index].runs = 1
    /\ Len(TextItemOf(doc, call.layer_index).text_data.properties) = 1

(***************************************************************************)
(* C12: the text-layer index.                                              *)
(***************************************************************************)
\* the tagged blocks of a layer's extra-data as the file format lays them
\* out: behind the mask data, the blending ranges and the padded name, each
\* a signature, a key, a length and the payload padded to an even length
RECURSIVE TaggedBlocks(_, _)
TaggedBlocks(data, off) ==
    IF Len(data) - off < 12 THEN <<>>
    ELSE <<[sig |-> Slice(data, off, 4), key |-> Slice(data, off + 4, 4),
            payload |-> Slice(data, off + 12, Be32(Slice(data, off + 8, 4)))]>>
         \o TaggedBlocks(data, off + 12 + Be32(Slice(data, off + 8, 4))
                                   + (Be32(Slice(data, off + 8, 4)) % 2))

BlocksStart(data) ==
    8 + Be32(Slice(data, 0, 4)) + Be32(Slice(data, 4 + Be32(Slice(data, 0, 4)), 4))
      + PascalTotal(data[8 + Be32(Slice(data, 0, 4))
                           + Be32(Slice(data, 4 + Be32(Slice(data, 0, 4)), 4)) + 1])

LayerBlocks(layer) ==
    IF layer.additional_length < 9 THEN <<>>
    ELSE TaggedBlocks(layer.additional_data, BlocksStart(layer.additional_data))

IsTextBlock(b) == b.sig \in {SIG_8BIM, SIG_8B64} /\ b.key \in {KEY_TySh, KEY_tySh}

SourceOfKey(key) ==
    IF key = KEY_TySh THEN "PSD_TEXT_SOURCE_TYSH" ELSE "PSD_TEXT_SOURCE_TYSH_LEGACY"

Indexed(d, l, b) ==
    \E i \in 1..Len(d.text_layers.items) :
        /\ d.text_layers.items[i].layer_index = l
        /\ d.text_layers.items[i].source = SourceOfKey(b.key)
        /\ d.text_layers.items[i].raw_tysh = b.payload

\* C12: after parsing, for every layer and every tagged block of its
\* extra-data with signature 8BIM or 8B64 and key TySh or tySh, the
\* text-layer index holds a record for that layer with the matching source
\* marker and the block's raw payload.
C12_TextBlocksIndexed ==
    Returned =>
        \A l \in 0..(doc.layers.layer_count - 1) :
            \A k \in 1..Len(LayerBlocks(LayerAt(doc, l))) :
                IsTextBlock(LayerBlocks(LayerAt(doc, l))[k]) =>
                    Indexed(doc, l, LayerBlocks(LayerAt(doc, l))[k])

\* a document of two layers, the first with a legacy tySh block only, the
\* second with a TySh block under the 8B64 signature: the index is empty
C12_TextBlocksMissed ==
    /\ Returned /\ call.name = "psd_parse_ex" /\ call.oom = "none"
    /\ doc.layers.layer_count = 2
    /\ LayerBlocks(LayerAt(doc, 0))
           = <<[sig |-> SIG_8BIM, key |-> KEY_tySh, payload |-> <<0, 1>>]>>
    /\ LayerBlocks(LayerAt(doc, 1))
           = <<[sig |-> SIG_8B64, key |-> KEY_TySh, payload |-> <<0, 2>>]>>
    /\ LayerAt(doc, 1).features.has_text
    /\ doc.text_layers.count = 0

(***************************************************************************)
(* The allocator's blocks after psd_parse_ex (hist, in SpecParse).         *)
(***************************************************************************)
ReturnedNull == pc = "done" /\ ret = "NULL"

\* C13: whenever psd_parse_ex returns NULL, whichever section failed (a hard
\* composite-image failure after layers and text layers were parsed and a
\* failure of the channel-image-data pass included), every block obtained
\* from the allocator during that parse has been freed.
C13_NullLeavesNoBlock == ReturnedNull => hist = {}

\* a hard composite-image failure returns NULL with the layer records, a
\* channel buffer, a layer name and the text-layer index still allocated
C13_CompositeFailureLeaks ==
    /\ ReturnedNull
    /\ out_status = "PSD_ERR_OUT_OF_MEMORY" /\ call.oom = "composite.data"
    /\ Blk("layers", -1, -1) \in hist
    /\ Blk("compressed_data", 1, 0) \in hist
    /\ Blk("name", 1, -1) \in hist
    /\ Blk("raw_tysh", 0, -1) \in hist
    /\ Blk("doc", -1, -1) \notin hist

(***************************************************************************)
(* psd_document_free: the blocks it hands to the allocator's free, in the  *)
(* order of the calls.  A block is named by the field the pointer was read *)
(* from.                                                                   *)
(***************************************************************************)
\* decoded_data points into the compressed buffer (no allocation of its own)
SameBuffer(channel) == channel.decoded_data # NULL /\ channel.decoded_at = 0

RECURSIVE FreeChannels(_, _, _)
FreeChannels(channels, i, j) ==
    IF j > Len(channels) THEN <<>>
    ELSE (IF channels[j].compressed_data # NULL
          THEN <<Blk("compressed_data", i, j - 1)>> ELSE <<>>)
         \o (IF channels[j].decoded_data # NULL /\ ~SameBuffer(channels[j])
             THEN <<Blk("decoded_data", i, j - 1)>> ELSE <<>>)
         \o FreeChannels(channels, i, j + 1)

RECURSIVE FreeLayers(_, _)
FreeLayers(layers, i) ==
    IF i > Len(layers) THEN <<>>
    ELSE (IF layers[i].channel_count > 0
          THEN FreeChannels(layers[i].channels, i - 1, 1) \o <<Blk("channels", i - 1, -1)>>
          ELSE <<>>)
         \o (IF LayerHasName(layers[i].additional_data)
             THEN <<Blk("name", i - 1, -1)>> ELSE <<>>)
         \o (IF layers[i].additional_length > 0
             THEN <<Blk("additional_data", i - 1, -1)>> ELSE <<>>)
         \o FreeLayers(layers, i + 1)

RECURSIVE FreeTextItems(_, _)
FreeTextItems(items, k) ==
    IF k > Len(items) THEN <<>>
    ELSE (IF items[k].raw_tysh # NULL THEN <<Blk("raw_tysh", k - 1, -1)>> ELSE <<>>)
         \o (IF items[k].raw_text_engine # NULL
             THEN <<Blk("raw_text_engine", k - 1, -1)>> ELSE <<>>)
         \o (IF items[k].text_data # NULL_DESC
             THEN <<Blk("text_data", k - 1, -1)>> ELSE <<>>)
         \o (IF items[k].warp_data # NULL_DESC
             THEN <<Blk("warp_data", k - 1, -1)>> ELSE <<>>)
         \o FreeTextItems(items, k + 1)

psd_free_text_layers(d) ==
    IF d.text_layers.count = 0 THEN <<>>
    ELSE FreeTextItems(d.text_layers.items, 1) \o <<Blk("text_layers.items", -1, -1)>>

psd_document_free(d) ==
    IF d = NULL_DOC THEN <<>>
    ELSE (IF d.color_data.data # NULL THEN <<Blk("color_data.data", -1, -1)>> ELSE <<>>)
         \o (IF d.resources.count > 0 THEN <<Blk("resources.blocks", -1, -1)>> ELSE <<>>)
         \o (IF d.layers.layer_count > 0
             THEN FreeLayers(d.layers.layers, 1) \o <<Blk("layers", -1, -1)>>
             ELSE <<>>)
         \o (IF d.composite.data # NULL THEN <<Blk("composite.data", -1, -1)>> ELSE <<>>)
         \o psd_free_text_layers(d)
         \o <<Blk("doc", -1, -1)>>

\* the blocks allocated for the document and not freed since: those of the
\* parse, the planes of the channels decoded since, the descriptors parsed
\* since
OwnedBlocks(d) ==
    DocumentBlocks(d)
    \cup UNION {{Blk("decoded_data", i - 1, j - 1) :
                    j \in {c \in 1..d.layers.layers[i].channel_count :
                              d.layers.layers[i].channels[c].decoded_at # 0}} :
                i \in 1..d.layers.layer_count}
    \cup {Blk("text_data", k - 1, -1) :
             k \in {n \in 1..d.text_layers.count :
                       /\ d.text_layers.items[n].text_data # NULL_DESC
                       /\ d.text_layers.items[n].text_data # WILD_DESC}}
    \cup {Blk("warp_data", k - 1, -1) :
             k \in {n \in 1..d.text_layers.count :
                       /\ d.text_layers.items[n].warp_data # NULL_DESC
                       /\ d.text_layers.items[n].warp_data # WILD_DESC}}

\* layers with each kind of channel payload, text layers with a full, an
\* empty and a truncated TySh payload, a document with colour data
TeardownFiles ==
    {LayerFile(8, PSD_COLOR_RGB, <<l>>) : l \in ChannelLayers(<<0, -1>>, MaxWidth, 8)}
    \cup {LayerFile(8, PSD_COLOR_RGB,
                    <<Layer(8, <<>>, Bounds(0, 0, 0, 0),
                            ExtraData(<<>>, <<>>, <<>>,
                                      Block(SIG_8BIM, KEY_TySh, payload)))>>) :
             payload \in {<<>>,
                          SubSeq(TyShPayload(DescriptorBytes(TRUE, <<>>), <<>>), 1, 40),
                          TyShPayload(DescriptorBytes(TRUE, <<>>),
                                      Enc16(1) \o Enc32(16) \o DescriptorBytes(TRUE, <<>>))}}
    \cup {File(Header(PSD_SIGNATURE, PSD_VERSION_PSD, 1, 1, 1, 8, PSD_COLOR_INDEXED)
               \o ColorSection(768), NoResources, NoLayers, <<0, 0, 9>>)}

InitTeardown == InitWith(TeardownFiles)

\* psd_document_free(doc)
DocumentFree ==
    /\ pc = "ready"
    /\ pc' = "freed"
    /\ call' = [name |-> "psd_document_free", frees |-> psd_document_free(doc),
                owned |-> OwnedBlocks(doc)]
    /\ doc' = NULL_DOC
    /\ out_status' = "PSD_OK"
    /\ UNCHANGED <<stream, pos, ret, build, hist>>

\* the byte source after the caller destroyed it, and its position
DestroyedStream == [EmptySections(<<>>) EXCEPT !.null = TRUE]
NoPosition == 0 - 1

\* psd_stream_destroy(stream) by the caller, any time after the parse
StreamDestroy ==
    /\ pc = "ready"
    /\ stream # DestroyedStream
    /\ stream' = DestroyedStream
    /\ pos' = NoPosition
    /\ call' = [name |-> "psd_stream_destroy"]
    /\ UNCHANGED <<pc, doc, ret, out_status, build, hist>>

NextTeardown == NextRender \/ DocumentFree \/ StreamDestroy

SpecTeardown == InitTeardown /\ [][NextTeardown]_vars

Freed == pc = "freed"

\* block a has to be freed before block b
FreedBefore(a, b) ==
    \/ a.kind \in {"compressed_data", "decoded_data"} /\ b.kind = "channels"
          /\ a.layer = b.layer
    \/ a.kind \in {"channels", "name", "additional_data"} /\ b.kind = "layers"
    \/ a.kind = "layers" /\ b.kind = "doc"
    \/ a.kind \in {"text_data", "warp_data", "raw_tysh"} /\ b.kind = "text_layers.items"
    \/ a.kind = "text_layers.items" /\ b.kind = "doc"

\* C14: teardown, after any sequence of accessor, lazy-decode, render and
\* text-layer calls, frees every block the document owns, each exactly once
\* and nothing else, channel buffers before the layer's channel array, layer
\* arrays before the document, descriptors before the text-layer records.
C14_TeardownFreesOwned ==
    Freed =>
        /\ {call.frees[n] : n \in DOMAIN call.frees} = call.owned
        /\ \A m, n \in DOMAIN call.frees :
              /\ (m # n) => call.frees[m] # call.frees[n]
              /\ FreedBefore(call.frees[m], call.frees[n]) => m < n

\* teardown of a document with a text layer of an empty TySh payload, with
\* no call in between: the record's descriptor pointers and engine-data
\* pointer were never assigned, and teardown frees them
C14_FreesUnassigned ==
    /\ Freed
    /\ hist.mallocs = 0 /\ \A l \in DOMAIN hist.text_runs : hist.text_runs[l] = 0
    /\ \E n \in DOMAIN call.frees :
          /\ call.frees[n] = Blk("text_data", 0, -1)
          /\ call.frees[n] \notin call.owned
    /\ Blk("raw_tysh", 0, -1) \in call.owned

(***************************************************************************)
(* C15: the byte source after the parse.                                   *)
(***************************************************************************)
SourceDestroyed == stream = DestroyedStream

\* C15: after psd_parse / psd_parse_ex returned, no operation on the
\* document (accessor, lazy channel decode, rendering, on-demand descriptor
\* parsing, teardown) reads the byte source: each leaves the source and its
\* position as they were, whether or not the caller has destroyed the source,
\* and a channel request answers with a buffer of the document.
C15_SourceNotRead ==
    [][(call'.name # "psd_stream_destroy") =>
          /\ stream' = stream /\ pos' = pos
          /\ (call'.name = "psd_document_get_layer_channel_data"
                  /\ call'.status = "PSD_OK") =>
                 \/ /\ call'.data.buf = "decoded"
                    /\ call'.data.bytes
                           = ChannelOf(doc', call'.layer_index, call'.channel_index).decoded_data
                 \/ /\ call'.data.buf = "compressed"
                    /\ call'.data.bytes
                           = ChannelOf(doc', call'.layer_index, call'.channel_index).compressed_data
      ]_vars

\* with the source destroyed, a text-content call parses the layer's payload
\* and succeeds
C15_Witness ==
    /\ SourceDestroyed /\ pc = "ready"
    /\ call.name = "psd_text_layer_get_text" /\ call.ran
    /\ TextItemOf(doc, call.layer_index).warp_data # NULL_DESC
    /\ hist.text_runs[call.layer_index] = 1

(***************************************************************************)
(* The channel image data of the layer-info subsection, byte by byte.      *)
(* The layer records have been read: every channel carries the length the  *)
(* record stored for it.  data holds the bytes from channel_data_start on  *)
(* (offset 0 here), layer_info_end is the end of the subsection in it.     *)
(***************************************************************************)
MaxPayload == 2
MaxPad == 3

RECURSIVE SumLengths(_, _)
SumLengths(channels, k) ==
    IF k > Len(channels) THEN 0
    ELSE channels[k].compressed_length + SumLengths(channels, k + 1)

lengths_exclude_compression(channels, layer_info_end) ==
    SumLengths(channels, 1) + 2 * Len(channels) = layer_info_end

\* The two nested loops over layers and channels, as one loop over the
\* channels in file order.  oom is the index of the channel whose buffer
\* cannot be allocated (0: none).
RECURSIVE ChannelDataLoop(_, _, _, _, _, _, _)
ChannelDataLoop(channels, k, data, p, exclude, oom, out) ==
    IF k > Len(channels)
    THEN [status |-> "PSD_OK", channels |-> out, pos |-> p]
    ELSE IF ~CanRead(data, p, 2)
    THEN [status |-> "PSD_ERR_STREAM_EOF", channels |-> out, pos |-> p]
    ELSE IF Be16(Slice(data, p, 2)) > 3
    THEN [status |-> "PSD_ERR_CORRUPT_DATA", channels |-> out, pos |-> p + 2]
    ELSE IF ~exclude /\ channels[k].compressed_length < 2
    THEN [status |-> "PSD_ERR_CORRUPT_DATA", channels |-> out, pos |-> p + 2]
    ELSE With(IF exclude THEN channels[k].compressed_length
                         ELSE channels[k].compressed_length - 2,
              LAMBDA data_length :
        IF oom = k
        THEN [status |-> "PSD_ERR_OUT_OF_MEMORY", channels |-> out,
              pos |-> p + 2]
        ELSE IF ~CanRead(data, p + 2, data_length)
        THEN [status |-> "PSD_ERR_STREAM_EOF", channels |-> out,
              pos |-> Len(data)]
        ELSE ChannelDataLoop(channels, k + 1, data, p + 2 + data_length,
                 exclude, oom,
                 Append(out,
                     [layer |-> channels[k].layer,
                      compression |-> Be16(Slice(data, p, 2)),
                      compressed_length |-> data_length,
                      compressed_data |-> Slice(data, p + 2, data_length)])))

psd_parse_channel_image_data(channels, data, layer_info_end, oom) ==
    ChannelDataLoop(channels, 1, data, 0,
        lengths_exclude_compression(channels, layer_info_end), oom, <<>>)

\* What a writer puts into the file.  A written channel is its compression
\* kind and its payload; the record's length field counts the payload and,
\* for the writers that follow the format document, the two bytes of the
\* compression kind as well.
WriterConventions == {"with_prefix", "payload_only"}

Payloads == UNION {[1..n -> {7}] : n \in 1..MaxPayload}

WrittenChannels ==
    {[layer |-> l, compression |-> c, payload |-> p] :
        l \in {0}, c \in {0, 1}, p \in Payloads}

WrittenLists ==
    {<<a>> : a \in WrittenChannels}
    \cup {<<a, [b EXCEPT !.layer = l]>> :
            a \in WrittenChannels, b \in WrittenChannels, l \in {0, 1}}

RECURSIVE ChannelBytes(_, _)
ChannelBytes(written, k) ==
    IF k > Len(written) THEN <<>>
    ELSE Enc16(written[k].compression) \o written[k].payload
         \o ChannelBytes(written, k + 1)

StoredLength(w, convention) ==
    IF convention = "with_prefix" THEN Len(w.payload) + 2 ELSE Len(w.payload)

\* The bytes after the subsection: the global layer mask info, of length 0.
GlobalMaskInfo == <<0, 0, 0, 0>>

ChannelDataFile(written, convention, pad) ==
    [written |-> written,
     convention |-> convention,
     pad |-> pad,
     channels |-> [k \in 1..Len(written) |->
                      [layer |-> written[k].layer,
                       compressed_length |->
                           StoredLength(written[k], convention)]],
     layer_info_end |-> Len(ChannelBytes(written, 1)) + pad,
     data |-> ChannelBytes(written, 1) \o [i \in 1..pad |-> 0]
              \o GlobalMaskInfo]

ChannelDataFiles ==
    {ChannelDataFile(w, c, pad) :
        w \in WrittenLists, c \in WriterConventions, pad \in 0..MaxPad}

InitChannelData ==
    /\ stream \in ChannelDataFiles
    /\ pos = 0
    /\ pc = "records"
    /\ doc = NULL_DOC
    /\ ret = "none"
    /\ out_status = "none"
    /\ build = [zip |-> TRUE]
    /\ call = [name |-> "none"]
    /\ hist = {}

ParseChannelImageData ==
    /\ pc = "records"
    /\ \E oom \in 0..Len(stream.channels) :
        \E r \in {psd_parse_channel_image_data(stream.channels, stream.data,
                      stream.layer_info_end, oom)} :
            /\ doc' = [channels |-> r.channels]
            /\ pos' = r.pos
            /\ out_status' = r.status
            /\ call' = [name |-> "psd_parse_layer_info", oom |-> oom,
                        exclude |-> lengths_exclude_compression(
                            stream.channels, stream.layer_info_end)]
    /\ pc' = "done"
    /\ ret' = "status"
    /\ UNCHANGED <<stream, build, hist>>

NextChannelData == ParseChannelImageData

SpecChannelData == InitChannelData /\ [][NextChannelData]_vars

AsWritten(parsed, written) ==
    /\ Len(parsed) = Len(written)
    /\ \A k \in 1..Len(written) :
        /\ parsed[k].compression = written[k].compression
        /\ parsed[k].compressed_length = Len(written[k].payload)
        /\ parsed[k].compressed_data = written[k].payload

\* C16: for a file of either writer convention, the pass takes the stored
\* lengths the way the writer meant them: when no allocation fails it
\* succeeds, and every channel has the compression kind and the payload
\* the writer wrote for it.
C16_HeuristicPicksWriter ==
    (pc = "done" /\ call.oom = 0) =>
        /\ out_status = "PSD_OK"
        /\ AsWritten(doc.channels, stream.written)
        /\ call.exclude = (stream.convention = "payload_only")

\* A payload-only file whose subsection is padded to an even length: the
\* lengths are taken as including the prefix and the channel loses bytes.
C16_PaddedPayloadOnly ==
    /\ pc = "done" /\ call.oom = 0
    /\ stream.convention = "payload_only" /\ stream.pad = 1
    /\ Len(stream.written) = 1
    /\ Len(stream.written[1].payload) = 2
    /\ ~call.exclude
    /\ out_status = "PSD_OK"
    /\ doc.channels[1].compressed_length = 0

\* Without padding the heuristic is right for both conventions.
C16_UnpaddedPicksWriter ==
    (pc = "done" /\ call.oom = 0 /\ stream.pad = 0) =>
        /\ out_status = "PSD_OK"
        /\ AsWritten(doc.channels, stream.written)
        /\ call.exclude = (stream.convention = "payload_only")

(***************************************************************************)
(* The decoders on their own: each is applied to a compressed buffer src   *)
(* for an image of width bytes per scanline and height scanlines (8 bits   *)
(* per sample, one sample per pixel).                                      *)
(***************************************************************************)
MaxSrc == 5

CodecBytes == {0, 1, 2, 3, 255}

\* buffers that need a longer table or a byte outside CodecBytes: 4-byte
\* row counts, and the PackBits no-op
LongBuffers ==
    {<<0, 0, 0, 2, 0, 1>>, <<0, 0, 0, 2, 0, 1, 3>>, <<0, 3, 128, 0, 1>>,
     <<0, 2, 0, 2, 0, 1, 0, 2>>}

CodecBuffers ==
    UNION {[1..n -> CodecBytes] : n \in 0..MaxSrc} \cup LongBuffers

CodecInputs ==
    {[src |-> s, width |-> w, height |-> h] :
        s \in CodecBuffers, w \in 1..MaxWidth, h \in 1..MaxHeight}

InitCodec ==
    /\ stream \in CodecInputs
    /\ pos = 0
    /\ pc = "input"
    /\ doc = NULL_DOC
    /\ ret = "none"
    /\ out_status = "none"
    /\ build = [zip |-> TRUE]
    /\ call = [name |-> "none"]
    /\ hist = {}

\* psd_layer_channel_decode on an RLE channel whose payload is src
LayerRleDecode ==
    /\ pc = "input"
    /\ \E ok \in BOOLEAN :
        \E r \in {psd_layer_channel_decode(Channel(0, 1, stream.src),
                      stream.width, stream.height, 8, build.zip,
                      [ok |-> ok, serial |-> 1])} :
            /\ doc' = [out |-> r.channel.decoded_data]
            /\ out_status' = r.status
            /\ call' = [name |-> "psd_layer_channel_decode",
                        row_count_bytes |->
                            RleCounts(
                                parse_rle_row_counts(stream.src,
                                    Len(stream.src), stream.height, 2),
                                parse_rle_row_counts(stream.src,
                                    Len(stream.src), stream.height, 4),
                                Len(stream.src)).row_count_bytes]
    /\ pc' = "done"
    /\ ret' = "status"
    /\ UNCHANGED <<stream, pos, build, hist>>

\* psd_try_decode_composite_rle on a stream that holds src: table is the
\* size of the row-count table, sum the sum of its counts and consumed the
\* input bytes psd_rle_decode has used when it returns
CompositeRleDecode ==
    /\ pc = "input"
    /\ \E count_bytes \in {2, 4} :
        \E r \in {psd_try_decode_composite_rle(stream.src, 0, stream.height,
                      stream.width, stream.width * stream.height,
                      count_bytes, TRUE)} :
        \E counts \in {ReadRowCounts(stream.src, 0, stream.height,
                           count_bytes, 0)} :
            /\ doc' = [out |-> r.out]
            /\ out_status' = r.status
            /\ pos' = r.pos
            /\ call' = [name |-> "psd_try_decode_composite_rle",
                        count_bytes |-> count_bytes,
                        table |-> count_bytes * stream.height,
                        sum |-> counts.sum,
                        consumed |->
                            IF r.status = "PSD_OK"
                            THEN psd_rle_decode(
                                     StreamRead(stream.src, counts.pos,
                                                counts.sum),
                                     stream.height, stream.width).comp_pos
                            ELSE 0]
    /\ pc' = "done"
    /\ ret' = "status"
    /\ UNCHANGED <<stream, build, hist>>

\* psd_rle_decode_scanline on src as one row
ScanlineDecode ==
    /\ pc = "input"
    /\ \E r \in {psd_rle_decode_scanline(stream.src, stream.width)} :
        /\ doc' = [out |-> r.out]
        /\ out_status' = r.status
        /\ call' = [name |-> "psd_rle_decode_scanline",
                    consumed |-> r.comp_pos]
    /\ pc' = "done"
    /\ ret' = "status"
    /\ UNCHANGED <<stream, pos, build, hist>>

\* psd_packbits_decode_row on src as one row
PackbitsRowDecode ==
    /\ pc = "input"
    /\ \E r \in {psd_packbits_decode_row(stream.src, stream.width)} :
        /\ doc' = [out |-> r.dst]
        /\ out_status' = r.status
        /\ call' = [name |-> "psd_packbits_decode_row", consumed |-> r.si]
    /\ pc' = "done"
    /\ ret' = "status"
    /\ UNCHANGED <<stream, pos, build, hist>>

\* psd_zip_decompress_with_prediction on a DEFLATE stream that inflates to
\* src.  The output buffer has width * height bytes when the layer decoder
\* calls it (psd_layer_channel_decode, case 3); a caller that has room for
\* the filter bytes passes (width + 1) * height.
ZipPredictDecode ==
    /\ pc = "input"
    /\ \E bpp \in {1, 2},
          decompressed_len \in {stream.width * stream.height,
                                (stream.width + 1) * stream.height} :
        \E r \in {psd_zip_decompress_with_prediction(build.zip,
                      <<ZMark>> \o stream.src, decompressed_len,
                      stream.width, bpp)} :
            /\ doc' = [out |-> r.out]
            /\ out_status' = r.status
            /\ call' = [name |-> "psd_zip_decompress_with_prediction",
                        bytes_per_pixel |-> bpp,
                        decompressed_len |-> decompressed_len]
    /\ pc' = "done"
    /\ ret' = "status"
    /\ UNCHANGED <<stream, pos, build, hist>>

NextCodec ==
    \/ LayerRleDecode
    \/ CompositeRleDecode
    \/ ScanlineDecode
    \/ PackbitsRowDecode
    \/ ZipPredictDecode

SpecCodec == InitCodec /\ [][NextCodec]_vars

Decoded_by(name) == pc = "done" /\ call.name = name

\* the sum of the first rows entries of the table at the start of src,
\* each entry_bytes wide
RECURSIVE SumCounts(_, _, _)
SumCounts(src, entry_bytes, rows) ==
    IF rows = 0 THEN 0
    ELSE SatAdd(SumCounts(src, entry_bytes, rows - 1),
                RowCount(src, rows - 1, entry_bytes))

\* total2 or total4 equals the payload length
TotalMatches(src, entry_bytes, rows) ==
    /\ Len(src) >= entry_bytes * rows
    /\ entry_bytes * rows + SumCounts(src, entry_bytes, rows) = Len(src)

\* C17: the row-count width of an RLE layer channel is the one whose total
\* (table plus sum of counts) equals the payload length, 2 bytes when both
\* do, and when neither does the decode fails with corruption.
C17_WidthByExactAccounting ==
    Decoded_by("psd_layer_channel_decode") =>
        /\ TotalMatches(stream.src, 2, stream.height)
               => call.row_count_bytes = 2
        /\ (TotalMatches(stream.src, 4, stream.height)
            /\ ~TotalMatches(stream.src, 2, stream.height))
               => call.row_count_bytes = 4
        /\ (~TotalMatches(stream.src, 2, stream.height)
            /\ ~TotalMatches(stream.src, 4, stream.height))
               => out_status = "PSD_ERR_CORRUPT_DATA"

\* A payload with one byte after the last row: neither total equals its
\* length, 2-byte counts are used and the channel is decoded.
C17_NeitherMatchesDecoded ==
    /\ Decoded_by("psd_layer_channel_decode")
    /\ stream.src = <<0, 2, 0, 1, 3>>
    /\ stream.width = 1 /\ stream.height = 1
    /\ ~TotalMatches(stream.src, 2, stream.height)
    /\ ~TotalMatches(stream.src, 4, stream.height)
    /\ call.row_count_bytes = 2
    /\ out_status = "PSD_OK"
    /\ doc.out = <<1>>

\* When one of the totals equals the payload length the choice is as stated.
C17_MatchingWidthUsed ==
    Decoded_by("psd_layer_channel_decode") =>
        /\ TotalMatches(stream.src, 2, stream.height)
               => call.row_count_bytes = 2
        /\ (TotalMatches(stream.src, 4, stream.height)
            /\ ~TotalMatches(stream.src, 2, stream.height))
               => call.row_count_bytes = 4

C17_FourByteCountsUsed ==
    /\ Decoded_by("psd_layer_channel_decode")
    /\ TotalMatches(stream.src, 4, stream.height)
    /\ call.row_count_bytes = 4
    /\ out_status = "PSD_OK"

\* every row y is the exact PackBits decoding of the bytes its entry of the
\* row-count table declares for it, the rows lying one after the other
\* behind the table
RowsAsDeclared(src, entry_bytes, rows, width, out) ==
    \A y \in 0..(rows - 1) :
        /\ entry_bytes * rows + SumCounts(src, entry_bytes, y + 1) <= Len(src)
        /\ \E row \in {psd_packbits_decode_row(
                          Slice(src,
                                entry_bytes * rows
                                    + SumCounts(src, entry_bytes, y),
                                RowCount(src, y, entry_bytes)),
                          width)} :
            /\ row.status = "PSD_OK"
            /\ row.dst = Slice(out, y * width, width)

\* C18: a successful RLE decoding, of a layer channel or of composite image
\* data, gives exactly scanline_bytes x rows bytes, decodes each row from
\* exactly the bytes its row-count entry declares and leaves no input
\* byte unread.
C18_RleExact ==
    /\ (Decoded_by("psd_layer_channel_decode") /\ out_status = "PSD_OK") =>
        /\ Len(doc.out) = stream.width * stream.height
        /\ TotalMatches(stream.src, call.row_count_bytes, stream.height)
        /\ RowsAsDeclared(stream.src, call.row_count_bytes, stream.height,
                          stream.width, doc.out)
    /\ (Decoded_by("psd_try_decode_composite_rle") /\ out_status = "PSD_OK") =>
        /\ Len(doc.out) = stream.width * stream.height
        /\ call.consumed = call.sum
        /\ RowsAsDeclared(stream.src, call.count_bytes, stream.height,
                          stream.width, doc.out)

\* Composite data whose only row is declared as 3 bytes and is complete
\* after 2: the decode succeeds and the third byte is never looked at.
C18_LeftoverAccepted ==
    /\ Decoded_by("psd_try_decode_composite_rle")
    /\ stream.src = <<0, 3, 0, 1, 3>>
    /\ stream.width = 1 /\ stream.height = 1
    /\ call.count_bytes = 2 /\ call.sum = 3 /\ call.consumed = 2
    /\ out_status = "PSD_OK"
    /\ doc.out = <<1>>

\* The size of the output is right in both decoders, and the layer decoder
\* takes each row from the bytes its entry declares.
C18_OutputSize ==
    /\ (Decoded_by("psd_layer_channel_decode") /\ out_status = "PSD_OK") =>
        /\ Len(doc.out) = stream.width * stream.height
        /\ RowsAsDeclared(stream.src, call.row_count_bytes, stream.height,
                          stream.width, doc.out)
    /\ (Decoded_by("psd_try_decode_composite_rle") /\ out_status = "PSD_OK") =>
        Len(doc.out) = stream.width * stream.height

RowExact ==
    IF out_status = "PSD_OK"
    THEN Len(doc.out) = stream.width /\ call.consumed = Len(stream.src)
    ELSE out_status = "PSD_ERR_CORRUPT_DATA"

\* C19: a single-row PackBits decode succeeds only when exactly width
\* bytes were produced and exactly the given input was consumed, and
\* reports corruption otherwise.
C19_RowExact ==
    (Decoded_by("psd_rle_decode_scanline")
     \/ Decoded_by("psd_packbits_decode_row")) => RowExact

\* A row that is complete after 2 of its 3 bytes is accepted by
\* psd_rle_decode_scanline.
C19_RemainingInputAccepted ==
    /\ Decoded_by("psd_rle_decode_scanline")
    /\ stream.src = <<0, 1, 3>> /\ stream.width = 1
    /\ out_status = "PSD_OK"
    /\ doc.out = <<1>>
    /\ call.consumed = 2

\* The row decoder of the layer channels is exact.
C19_PackbitsRowExact == Decoded_by("psd_packbits_decode_row") => RowExact

C19_PackbitsRowRefuses ==
    /\ Decoded_by("psd_packbits_decode_row")
    /\ stream.src = <<0, 1, 3>> /\ stream.width = 1
    /\ out_status = "PSD_ERR_CORRUPT_DATA"

\* The reversal of one filtered scanline as the format defines it, the
\* neighbours above and upper-left being zero: d is the filtered data and
\* i the index (from 0) of the next byte to restore.
RECURSIVE Unfiltered(_, _, _, _)
Unfiltered(filter, d, i, bpp) ==
    IF i >= Len(d) THEN d
    ELSE LET left == IF i >= bpp THEN d[i + 1 - bpp] ELSE 0
             predicted == CASE filter = 1 -> left
                            [] filter = 3 -> left \div 2
                            [] filter = 4 -> left
                            [] OTHER -> 0
         IN Unfiltered(filter,
                       [d EXCEPT ![i + 1] = (d[i + 1] + predicted) % 256],
                       i + 1, bpp)

\* the scanlines y .. height - 1 of inflated data made of records of one
\* filter byte and width filtered bytes
RECURSIVE UnfilteredScanlines(_, _, _, _, _)
UnfilteredScanlines(inflated, y, height, width, bpp) ==
    IF y = height THEN <<>>
    ELSE Unfiltered(inflated[y * (width + 1) + 1],
                    Slice(inflated, y * (width + 1) + 1, width), 0, bpp)
         \o UnfilteredScanlines(inflated, y + 1, height, width, bpp)

\* inflated data of height records of 1 + width bytes with known filters
FilteredImage(inflated, width, height) ==
    /\ Len(inflated) = (width + 1) * height
    /\ \A y \in 0..(height - 1) : inflated[y * (width + 1) + 1] <= 4

\* C20: ZIP with prediction takes the inflated data as one record of
\* 1 + scanline-width bytes per scanline, reverses the filter of each
\* record and gives scanline-width bytes for each of the height scanlines,
\* the filter bytes removed.
C20_ScanlinesUnfiltered ==
    (Decoded_by("psd_zip_decompress_with_prediction")
     /\ FilteredImage(stream.src, stream.width, stream.height)) =>
        /\ out_status = "PSD_OK"
        /\ Len(doc.out) >= stream.width * stream.height
        /\ Slice(doc.out, 0, stream.width * stream.height)
               = UnfilteredScanlines(stream.src, 0, stream.height,
                     stream.width, call.bytes_per_pixel)

\* One scanline of one byte, filter None: the stream inflates to 2 bytes,
\* the decoder expects width * height = 1 and reports corruption.
C20_FilteredImageRefused ==
    /\ Decoded_by("psd_zip_decompress_with_prediction")
    /\ stream.src = <<0, 1>> /\ stream.width = 1 /\ stream.height = 1
    /\ call.decompressed_len = 1
    /\ out_status = "PSD_ERR_CORRUPT_DATA"

\* Two scanlines of one byte in a buffer with room for the filter bytes:
\* the second record is taken one byte early, from the middle of the first.
C20_RecordsOverlap ==
    /\ Decoded_by("psd_zip_decompress_with_prediction")
    /\ stream.src = <<0, 1, 0, 2>> /\ stream.width = 1 /\ stream.height = 2
    /\ call.decompressed_len = 4
    /\ out_status = "PSD_OK"
    /\ Slice(doc.out, 0, 2) # <<1, 2>>

(***************************************************************************)
(* The output status of psd_parse_ex.                                      *)
(***************************************************************************)
ParsedEx == pc = "done" /\ call.name = "psd_parse_ex"

\* C30: psd_parse_ex stores PSD_OK in its output status if and only if it
\* returns a document: every NULL return stores a status other than PSD_OK
\* and every returned document, one returned after a soft composite
\* failure included, stores PSD_OK.
C30_StatusOkIffDocument ==
    ParsedEx =>
        /\ out_status # "unset"
        /\ (out_status = "PSD_OK") <=> (ret = "doc")
        /\ (ret = "doc") <=> (doc # NULL_DOC)
        /\ ret \in {"doc", "NULL"}

\* a document returned although its composite image uses a compression
\* the build cannot decode
C30_Witness ==
    /\ ParsedEx /\ ret = "doc"
    /\ CompositeUnsupported(stream, build.zip)
    /\ doc.composite.data = NULL
    /\ out_status = "PSD_OK"

\* a NULL return on a hard failure behind the header
C30_HardFailure ==
    /\ ParsedEx /\ ret = "NULL"
    /\ Len(stream.head) >= 26 /\ HeaderInRange(stream.head)
    /\ call.oom = "none"
    /\ out_status \notin {"PSD_OK", "unset", "PSD_ERR_OUT_OF_MEMORY"}

(***************************************************************************)
(* The composite accessor after the parse.                                 *)
(***************************************************************************)
CompositeRead ==
    /\ pc = "read" /\ call.name = "psd_document_get_composite_image"
    /\ call.status = "PSD_OK"

\* C29: the composite accessor reports a length other than 0 only with a
\* buffer of that many bytes; a document without a composite buffer
\* (missing, unsupported or dropped by a soft failure) gives a null data
\* pointer and length 0.
C29_LengthWithBuffer ==
    CompositeRead =>
        /\ call.length # 0 => (call.data # NULL /\ Len(call.data) = call.length)
        /\ doc.composite.data = NULL => (call.data = NULL /\ call.length = 0)

\* a raw composite image cut short: the buffer is dropped, the document is
\* returned and the accessor reports no data with the full length
C29_LengthWithoutBuffer ==
    /\ CompositeRead
    /\ CompositeShortRead(stream)
    /\ call.data = NULL
    /\ call.length > 0

\* With a buffer, the length is the buffer's.
C29_BufferHasLength ==
    (CompositeRead /\ call.data # NULL) => Len(call.data) = call.length

C29_BufferReported ==
    /\ CompositeRead /\ call.data # NULL /\ call.length > 0

(***************************************************************************)
(* The background predicate outside the layer array.                       *)
(***************************************************************************)
\* C26: for a layer_index outside [0, layer_count) the background predicate
\* returns false and reads no layer record, index -1 on a document without
\* layers included.
C26_OutOfRangeIsFalse ==
    (call.name = "psd_document_is_background_layer" /\ ~CallInRange) =>
        /\ ret = "0"
        /\ pc = "ready"

\* index -1 on a document without layers equals layer_count - 1: the record
\* before the (absent) array is read and the call faults
C26_ReadsBeforeArray ==
    /\ call.name = "psd_document_is_background_layer"
    /\ doc.layers.layer_count = 0 /\ doc.layers.layers = <<>>
    /\ call.layer_index = -1
    /\ pc = "fault"

\* Every other index outside the array gives false.
C26_OtherIndicesFalse ==
    (call.name = "psd_document_is_background_layer" /\ ~CallInRange
     /\ ~(doc.layers.layer_count = 0 /\ call.layer_index = -1)) =>
        /\ ret = "0"
        /\ pc = "ready"

C26_PastTheEndFalse ==
    /\ call.name = "psd_document_is_background_layer"
    /\ doc.layers.layer_count = 2 /\ call.layer_index = 2
    /\ ret = "0"

(***************************************************************************)
(* C28: the planes of a layer rendering.                                   *)
(***************************************************************************)
\* width x height x bytes per sample, rows of whole bytes at depth 1
LayerPlaneBytes(d, layer) ==
    IF d.depth = 1
    THEN ((LayerWidth(layer) + 7) \div 8) * LayerHeight(layer)
    ELSE LayerWidth(layer) * LayerHeight(layer) * bytes_per_sample(d.depth)

\* the channels the renderer takes a plane from: colour 0..3 and alpha -1
PlaneChannels(d, layer_index) ==
    {c \in 1..LayerAt(d, layer_index).channel_count :
        /\ LayerAt(d, layer_index).channels[c].channel_id \in -1..3
        /\ LayerAt(d, layer_index).channels[c].compressed_length > 0}

\* C28: a layer rendering reads no byte beyond a channel's data: when it
\* has gone on to the pixel loop and not returned an error, every channel
\* it took a plane from is decoded and holds at least scanline-bytes x
\* height bytes for the layer's bounds.
C28_PlanesWithinChannelData ==
    (/\ LayerRendered /\ PixelLayerAt(doc, call.layer_index)
     /\ ~call.out.null
     /\ call.out.size >= LayerWidth(LayerAt(doc, call.layer_index))
                             * LayerHeight(LayerAt(doc, call.layer_index)) * 4) =>
        /\ call.status # "fault"
        /\ call.status = "PSD_OK" =>
               \A c \in PlaneChannels(doc, call.layer_index) :
                   /\ LayerAt(doc, call.layer_index).channels[c].is_decoded
                   /\ LayerAt(doc, call.layer_index).channels[c].decoded_length
                          >= LayerPlaneBytes(doc, LayerAt(doc, call.layer_index))

\* a ZIP channel in a build without DEFLATE: its compressed bytes, fewer
\* than the plane needs, were taken as the plane and read past their end
C28_CompressedPlaneOverread ==
    /\ LayerRendered /\ PixelLayerAt(doc, call.layer_index)
    /\ ~build.zip
    /\ pc = "fault" /\ call.status = "fault"
    /\ \E c \in PlaneChannels(doc, call.layer_index) :
          /\ LayerAt(doc, call.layer_index).channels[c].compression = 2
          /\ ~LayerAt(doc, call.layer_index).channels[c].is_decoded
          /\ LayerAt(doc, call.layer_index).channels[c].compressed_length
                 < LayerPlaneBytes(doc, LayerAt(doc, call.layer_index))

\* a channel that could not be decoded is left out and the rendering
\* reports success
C28_UndecodedChannelSkipped ==
    /\ LayerRendered /\ PixelLayerAt(doc, call.layer_index)
    /\ call.status = "PSD_OK" /\ Len(call.written) > 0
    /\ \E c \in PlaneChannels(doc, call.layer_index) :
          /\ LayerAt(doc, call.layer_index).channels[c].compression = 1
          /\ ~LayerAt(doc, call.layer_index).channels[c].is_decoded

(***************************************************************************)
(* C25: the records of the text-layer index.                               *)
(***************************************************************************)
\* every field of the record was written: no descriptor, no engine data,
\* and a payload copy of the recorded length
Initialised(item) ==
    /\ item.text_data = NULL_DESC
    /\ item.warp_data = NULL_DESC
    /\ item.raw_text_engine = NULL
    /\ item.raw_tysh_len = Len(item.raw_tysh)

\* the document as the parse returned it, before any call on it
JustParsed == pc = "ready" /\ call.name = "none"

\* C25: every record the parse added to the text-layer index has all its
\* fields initialised, the text and warp descriptors absent and the raw
\* payload absent or owned by the record, also when the eager parse of the
\* TySh payload failed (a payload of length zero, a truncated payload); no
\* later text-layer call reads a pointer that was never assigned.
C25_RecordsInitialised ==
    /\ JustParsed =>
           \A k \in 1..doc.text_layers.count : Initialised(doc.text_layers.items[k])
    /\ TextCalled => pc # "fault"

\* the record of a TySh block of length zero, added with the descriptor
\* and engine-data pointers as the stack slot held them; a text-content
\* call has read through the descriptor pointer
C25_RecordFromStack ==
    /\ call.name = "psd_text_layer_get_text" /\ pc = "fault"
    /\ TextItemOf(doc, call.layer_index).source = "PSD_TEXT_SOURCE_TYSH"
    /\ TextItemOf(doc, call.layer_index).raw_tysh_len = 0
    /\ TextItemOf(doc, call.layer_index).text_data = WILD_DESC
    /\ TextItemOf(doc, call.layer_index).warp_data = WILD_DESC
    /\ TextItemOf(doc, call.layer_index).raw_text_engine = WILD

\* a record made of a payload that is not empty is initialised, however
\* short the payload
C25_TruncatedInitialised ==
    JustParsed =>
        \A k \in 1..doc.text_layers.count :
            doc.text_layers.items[k].raw_tysh_len > 0 =>
                Initialised(doc.text_layers.items[k])

(***************************************************************************)
(* C27: the bytes the three scans of a layer's extra-data read.  Each      *)
(* operator gives the scan's extent: the number of leading bytes of the    *)
(* buffer that cover every byte read (0: nothing read), given the extent h *)
(* reached so far.                                                         *)
(***************************************************************************)
Max(a, b) == IF a > b THEN a ELSE b

\* the 4-byte length of the mask data or of the blending ranges
LengthExtent(data, off, h) == IF Len(data) - off >= 4 THEN Max(h, off + 4) ELSE h

\* the length byte of the Pascal name
NameExtent(data, off, h) == IF Len(data) - off >= 1 THEN Max(h, off + 1) ELSE h

\* the block loop of the layer-record parser
RECURSIVE ScanBlocksExtent(_, _, _)
ScanBlocksExtent(data, off, h) ==
    LET remaining == Len(data) - off IN
    IF remaining < 12 THEN h
    ELSE IF Slice(data, off, 4) # SIG_8BIM /\ Slice(data, off, 4) # SIG_8B64
    THEN Max(h, off + 4)
    ELSE LET key == Slice(data, off + 4, 4)
             block_len == Be32(Slice(data, off + 8, 4))
             padded_len == IF block_len % 2 # 0 THEN block_len + 1 ELSE block_len
             payload == IF (key = KEY_lsct \/ key = KEY_luni) /\ block_len >= 4
                        THEN off + 16 ELSE off + 12
         IN
    IF block_len > remaining - 12 THEN Max(h, off + 12)
    ELSE IF 12 + padded_len <= remaining
         THEN ScanBlocksExtent(data, off + 12 + padded_len, Max(h, payload))
         ELSE Max(h, payload)

\* the extra-data scan of psd_parse_layer_info
FeatureScanExtent(data) ==
    IF Len(data) = 0 THEN 0
    ELSE LET a == SkipLengthPrefixed(data, 0)
             ha == LengthExtent(data, 0, 0)
         IN
    IF a < 0 THEN ha
    ELSE LET b == SkipLengthPrefixed(data, a)
             hb == LengthExtent(data, a, ha)
         IN
    IF b < 0 THEN hb
    ELSE LET c == SkipName(data, b)
             hc == NameExtent(data, b, hb)
         IN
    IF c < 0 THEN hc
    ELSE ScanBlocksExtent(data, c, Max(hc, c))

\* the block loop of psd_parse_text_layers: it goes on while 8 bytes remain
\* and reads the length at data + 8
RECURSIVE TextBlockScanExtent(_, _, _)
TextBlockScanExtent(data, off, h) ==
    LET remaining == Len(data) - off IN
    IF remaining < 8 THEN h
    ELSE IF remaining < 12 THEN Max(h, off + 12)
    ELSE LET sig == Slice(data, off, 4)
             key == Slice(data, off + 4, 4)
             block_len == Be32(Slice(data, off + 8, 4))
             block_total == 12 + block_len + (block_len % 2)
         IN
    IF block_len > remaining - 12 \/ block_total > remaining THEN Max(h, off + 12)
    ELSE IF sig # SIG_8BIM /\ sig # SIG_8B6M
    THEN TextBlockScanExtent(data, off + block_total, Max(h, off + 12))
    ELSE TextBlockScanExtent(data, off + block_total,
             Max(h, IF key = KEY_TySh \/ key = KEY_tySh
                    THEN off + 12 + block_len ELSE off + 12))

\* the way of the two later scans to the first block
LenientExtent(data) ==
    NameExtent(data, SkipLengthLenient(data, SkipLengthLenient(data, 0)),
        LengthExtent(data, SkipLengthLenient(data, 0), LengthExtent(data, 0, 0)))

FirstBlock(data) ==
    SkipNameLenient(data, SkipLengthLenient(data, SkipLengthLenient(data, 0)))

\* the scan of psd_parse_text_layers on one layer
TextScanExtent(data) ==
    IF ~ParseFeatures(data).has_text \/ Len(data) < 12 THEN 0
    ELSE TextBlockScanExtent(data, FirstBlock(data), LenientExtent(data))

\* the block loop of the background predicate
RECURSIVE VectorMaskScanExtent(_, _, _)
VectorMaskScanExtent(data, off, h) ==
    LET remaining == Len(data) - off IN
    IF remaining < 8 THEN h
    ELSE LET key == Slice(data, off, 4)
             block_len == Be32(Slice(data, off + 4, 4))
         IN IF key = KEY_vmsk \/ key = KEY_vmns THEN Max(h, off + 8)
            ELSE IF SatAdd(8, block_len) > remaining THEN Max(h, off + 8)
            ELSE VectorMaskScanExtent(data, off + 8 + block_len, Max(h, off + 8))

BackgroundScanExtent(data) ==
    IF Len(data) = 0 THEN 0
    ELSE VectorMaskScanExtent(data, FirstBlock(data), LenientExtent(data))

\* extra-data of a layer: mask data, blending ranges, a name, a block or
\* none, and up to MaxTail bytes behind: zeroes, or the header of a block
\* that declares more than is there
MaxTail == 11

ScanNames == {<<>>, <<65>>, <<65, 66, 67, 68>>}

ScanBlockSet ==
    {<<>>, Block(SIG_8BIM, KEY_TySh, <<>>), Block(SIG_8BIM, KEY_TySh, <<0, 1>>),
     Block(SIG_8BIM, KEY_tySh, <<7>>), Block(SIG_8BIM, KEY_vmsk, <<>>),
     Block(SIG_8BIM, KEY_luni, Enc32(0))}

ScanTails ==
    {Repeat(0, n) : n \in 0..MaxTail}
    \cup {SIG_8BIM \o KEY_TySh \o Enc32(100), SIG_8BIM \o KEY_TySh \o <<0, 0>>,
          KEY_SoLd \o Enc32(100)}

ScanInputs ==
    {ExtraData(<<>>, <<>>, name, blocks) \o tail :
        name \in ScanNames, blocks \in ScanBlockSet, tail \in ScanTails}
    \cup {Repeat(0, n) : n \in 0..MaxTail}
    \cup {Enc32(100), Enc32(0) \o Enc32(100), Enc32(0) \o Enc32(0) \o <<9, 65>>}

InitScan ==
    /\ stream \in ScanInputs
    /\ pc = "input"
    /\ pos = 0
    /\ doc = NULL_DOC
    /\ ret = "none"
    /\ out_status = "unset"
    /\ build = [zip |-> TRUE]
    /\ call = [name |-> "none", extent |-> 0]
    /\ hist = <<>>

\* the extra-data scan of a layer record in psd_parse_layer_info
FeatureScan ==
    /\ pc = "input"
    /\ pc' = "scanned"
    /\ ret' = ParseFeatures(stream)
    /\ call' = [name |-> "psd_parse_layer_info", extent |-> FeatureScanExtent(stream)]
    /\ UNCHANGED <<stream, pos, doc, out_status, build, hist>>

\* psd_parse_text_layers on the layer
TextLayerScan ==
    /\ pc = "input"
    /\ pc' = "scanned"
    /\ ret' = ParseFeatures(stream)
    /\ call' = [name |-> "psd_parse_text_layers", extent |-> TextScanExtent(stream)]
    /\ UNCHANGED <<stream, pos, doc, out_status, build, hist>>

\* the vector-mask scan of psd_document_is_background_layer on the layer
BackgroundScan ==
    /\ pc = "input"
    /\ pc' = "scanned"
    /\ ret' = ParseFeatures(stream)
    /\ call' = [name |-> "psd_document_is_background_layer",
                extent |-> BackgroundScanExtent(stream)]
    /\ UNCHANGED <<stream, pos, doc, out_status, build, hist>>

NextScan == FeatureScan \/ TextLayerScan \/ BackgroundScan

SpecScan == InitScan /\ [][NextScan]_vars

\* C27: the scans of a layer's extra-data for tagged blocks (feature
\* detection, the text-layer index, the vector-mask scan of the background
\* predicate) read no byte at an offset greater than or equal to the
\* extra-data length, whatever the extra-data holds.
C27_ScansWithinExtraData ==
    pc = "scanned" => call.extent <= Len(stream)

\* a TySh block followed by 8 bytes: the text-layer scan reads the 4 bytes
\* behind the extra-data as a block length
C27_TextScanReadsBehind ==
    /\ pc = "scanned" /\ call.name = "psd_parse_text_layers"
    /\ stream = ExtraData(<<>>, <<>>, <<>>, Block(SIG_8BIM, KEY_TySh, <<>>))
                    \o Repeat(0, 8)
    /\ ret.has_text
    /\ call.extent = Len(stream) + 4

\* the feature scan and the background predicate's scan stay inside
C27_OtherScansWithin ==
    (pc = "scanned" /\ call.name # "psd_parse_text_layers") =>
        call.extent <= Len(stream)

(***************************************************************************)
(* psd_parse_layer_info byte by byte: the section length, the layer-info   *)
(* length, the layer records, the channel image data, the global layer     *)
(* mask info and the way to the end of the section.  The byte source       *)
(* starts at the section's length field (offset 0) and is given as a head, *)
(* a run of zero bytes and a tail, so that a skip of a million bytes can   *)
(* be followed.  The allocator does not fail here.                         *)
(***************************************************************************)
Source(head, fill, tail) == [head |-> head, fill |-> fill, tail |-> tail]

SourceLen(s) == Len(s.head) + s.fill + Len(s.tail)

\* the byte at offset i (from 0)
ByteAt(s, i) ==
    IF i < Len(s.head) THEN s.head[i + 1]
    ELSE IF i < Len(s.head) + s.fill THEN 0
    ELSE s.tail[i - Len(s.head) - s.fill + 1]

Bytes(s, p, n) == [i \in 1..n |-> ByteAt(s, p + i - 1)]

\* psd_stream_read_exact of n bytes at p succeeds
Has(s, p, n) == p + n <= SourceLen(s)

Be64(b) ==
    IF b[1] # 0 \/ b[2] # 0 \/ b[3] # 0 \/ b[4] # 0 THEN Huge
    ELSE Be32(Slice(b, 4, 4))

\* psd_stream_read_length
psd_stream_read_length(s, p, is_psb) ==
    IF is_psb
    THEN IF Has(s, p, 8)
         THEN [status |-> "PSD_OK", value |-> Be64(Bytes(s, p, 8)), pos |-> p + 8]
         ELSE [status |-> "PSD_ERR_STREAM_EOF", value |-> 0, pos |-> p]
    ELSE IF Has(s, p, 4)
         THEN [status |-> "PSD_OK", value |-> Be32(Bytes(s, p, 4)), pos |-> p + 4]
         ELSE [status |-> "PSD_ERR_STREAM_EOF", value |-> 0, pos |-> p]

\* psd_stream_seek on a buffer: refused beyond the end, the position stays
SeekTo(s, p, offset) == IF offset <= SourceLen(s) THEN offset ELSE p

SeekFails(s, offset) == offset > SourceLen(s)

\* the channel descriptors of a record: id and length of each channel
RECURSIVE ChannelInfoLoop(_, _, _, _, _, _)
ChannelInfoLoop(s, q, j, is_psb, layer_info_end, lens) ==
    IF j = 0 THEN [status |-> "PSD_OK", pos |-> q, lens |-> lens]
    ELSE IF ~Has(s, q, 2) THEN [status |-> "PSD_ERR_STREAM_EOF", pos |-> q, lens |-> lens]
    ELSE With(psd_stream_read_length(s, q + 2, is_psb), LAMBDA r :
         IF r.status # "PSD_OK" THEN [status |-> r.status, pos |-> q, lens |-> lens]
         ELSE IF is_psb /\ layer_info_end - r.pos > 0
                 /\ r.value > layer_info_end - r.pos
         THEN ChannelInfoLoop(s, q + 6, j - 1, is_psb, layer_info_end,
                  Append(lens, [compressed_length |-> Be32(Bytes(s, q + 2, 4))]))
         ELSE ChannelInfoLoop(s, r.pos, j - 1, is_psb, layer_info_end,
                  Append(lens, [compressed_length |-> r.value])))

MaxChannelCount == 56
MaxExtraLength == 1000000

\* what a record leaves: where it began and ended, the channel count and
\* the extra length it declared, the channels kept
LayerRecord(start, end, declared_channels, declared_extra, channels) ==
    [start |-> start, end |-> end, declared_channels |-> declared_channels,
     declared_extra |-> declared_extra, channel_count |-> Len(channels),
     channels |-> channels, outcome |-> "PSD_OK"]

\* the extra length of a record and what follows it; p is the position
\* behind the length field.  "stop": the loop is left at this record
RecordExtra(s, start, p, declared_channels, info, layer_info_end, section_end) ==
    With(Be32(Bytes(s, p - 4, 4)), LAMBDA extra_length :
    IF extra_length > MaxExtraLength
    THEN IF p + extra_length > section_end
         THEN IF SeekFails(s, section_end)
              THEN [status |-> "PSD_ERR_OUT_OF_RANGE", pos |-> p,
                    rec |-> LayerRecord(start, p, declared_channels, extra_length, <<>>)]
              ELSE [status |-> "stop", pos |-> section_end,
                    rec |-> LayerRecord(start, section_end, declared_channels,
                                        extra_length, <<>>)]
         ELSE IF ~Has(s, p, extra_length)
         THEN [status |-> "PSD_ERR_STREAM_EOF", pos |-> p,
               rec |-> LayerRecord(start, p, declared_channels, extra_length, <<>>)]
         ELSE IF p + extra_length > layer_info_end
         THEN [status |-> "PSD_ERR_CORRUPT_DATA", pos |-> p + extra_length,
               rec |-> LayerRecord(start, p + extra_length, declared_channels,
                                   extra_length, <<>>)]
         ELSE [status |-> "PSD_OK", pos |-> p + extra_length,
               rec |-> LayerRecord(start, p + extra_length, declared_channels,
                                   extra_length, <<>>)]
    ELSE IF ~Has(s, p, extra_length)
    THEN [status |-> "PSD_ERR_STREAM_EOF", pos |-> p,
          rec |-> LayerRecord(start, p, declared_channels, extra_length, info.lens)]
    ELSE IF p + extra_length > layer_info_end
    THEN [status |-> "PSD_ERR_CORRUPT_DATA", pos |-> p + extra_length,
          rec |-> LayerRecord(start, p + extra_length, declared_channels,
                              extra_length, info.lens)]
    ELSE [status |-> "PSD_OK", pos |-> p + extra_length,
          rec |-> LayerRecord(start, p + extra_length, declared_channels,
                              extra_length, info.lens)])

\* one layer record at p: bounds, channel count, channel descriptors, blend
\* mode, opacity, clipping, flags, filler, extra length, extra-data
ParseLayerRecord(s, p, is_psb, layer_info_end, section_end) ==
    IF ~Has(s, p, 18)
    THEN [status |-> "PSD_ERR_STREAM_EOF", pos |-> p,
          rec |-> LayerRecord(p, p, 0, 0, <<>>)]
    ELSE With(Be16(Bytes(s, p + 16, 2)), LAMBDA declared :
         With(ChannelInfoLoop(s, p + 18,
                  IF declared > MaxChannelCount THEN 0 ELSE declared,
                  is_psb, layer_info_end, <<>>),
              LAMBDA info :
         IF info.status # "PSD_OK"
         THEN [status |-> info.status, pos |-> info.pos,
               rec |-> LayerRecord(p, info.pos, declared, 0, <<>>)]
         ELSE IF ~Has(s, info.pos, 16)
         THEN [status |-> "PSD_ERR_STREAM_EOF", pos |-> info.pos,
               rec |-> LayerRecord(p, info.pos, declared, 0, <<>>)]
         ELSE RecordExtra(s, p, info.pos + 16, declared, info, layer_info_end,
                          section_end)))

\* the loop over the layer records; n records are still to be read
RECURSIVE LayerRecordLoop(_, _, _, _, _, _, _)
LayerRecordLoop(s, p, n, is_psb, layer_info_end, section_end, recs) ==
    IF n = 0 THEN [status |-> "PSD_OK", pos |-> p, recs |-> recs]
    ELSE With(ParseLayerRecord(s, p, is_psb, layer_info_end, section_end),
              LAMBDA r :
         IF r.status = "stop"
         THEN [status |-> "PSD_OK", pos |-> r.pos,
               recs |-> Append(recs, [r.rec EXCEPT !.outcome = "stop"])]
         ELSE IF r.status # "PSD_OK"
         THEN [status |-> r.status, pos |-> r.pos,
               recs |-> Append(recs, [r.rec EXCEPT !.outcome = r.status])]
         ELSE LayerRecordLoop(s, r.pos, n - 1, is_psb, layer_info_end, section_end,
                              Append(recs, r.rec)))

RECURSIVE AllChannels(_, _)
AllChannels(recs, i) ==
    IF i > Len(recs) THEN <<>>
    ELSE recs[i].channels \o AllChannels(recs, i + 1)

\* the channel image data: where the pass ends
RECURSIVE ChannelDataEnd(_, _, _, _, _)
ChannelDataEnd(s, channels, k, p, exclude) ==
    IF k > Len(channels) THEN [status |-> "PSD_OK", pos |-> p]
    ELSE IF ~Has(s, p, 2) THEN [status |-> "PSD_ERR_STREAM_EOF", pos |-> p]
    ELSE IF Be16(Bytes(s, p, 2)) > 3 THEN [status |-> "PSD_ERR_CORRUPT_DATA", pos |-> p + 2]
    ELSE IF ~exclude /\ channels[k].compressed_length < 2
    THEN [status |-> "PSD_ERR_CORRUPT_DATA", pos |-> p + 2]
    ELSE With(IF exclude THEN channels[k].compressed_length
                         ELSE channels[k].compressed_length - 2,
              LAMBDA data_length :
         IF ~Has(s, p + 2, data_length)
         THEN [status |-> "PSD_ERR_STREAM_EOF", pos |-> SourceLen(s)]
         ELSE ChannelDataEnd(s, channels, k + 1, p + 2 + data_length, exclude))

\* the last step, were the position left where the global layer mask info
\* ended
SeekSectionEnd_stay(s, final_pos, section_end) ==
    [status |-> "PSD_OK", pos |-> final_pos]

\* the last step: on to the end of the whole section
SeekSectionEnd(s, final_pos, section_end) ==
    IF final_pos < section_end
    THEN IF SeekFails(s, section_end)
         THEN [status |-> "PSD_ERR_OUT_OF_RANGE", pos |-> final_pos]
         ELSE [status |-> "PSD_OK", pos |-> section_end]
    ELSE IF final_pos > section_end
    THEN [status |-> "PSD_ERR_CORRUPT_DATA", pos |-> final_pos]
    ELSE [status |-> "PSD_OK", pos |-> final_pos]

\* the global layer mask info at the end of the layer info, then the end
\* of the section
GlobalMaskAndEnd(s, p, layer_info_end, section_end) ==
    With(SeekTo(s, p, layer_info_end), LAMBDA q :
    IF ~Has(s, q, 4) THEN [status |-> "PSD_ERR_STREAM_EOF", pos |-> q]
    ELSE IF ~Has(s, q + 4, Be32(Bytes(s, q, 4)))
    THEN [status |-> "PSD_ERR_STREAM_EOF", pos |-> q + 4]
    ELSE With(q + 4 + Be32(Bytes(s, q, 4)), LAMBDA after :
         SeekSectionEnd(s,
             IF after < layer_info_end THEN SeekTo(s, after, layer_info_end)
             ELSE after,
             section_end)))

\* from the layer count on
LayersAndData(s, p, is_psb, layer_info_end, section_end, width) ==
    LET Result(status, at, recs) ==
            [status |-> status, pos |-> at, width |-> width,
             section_end |-> section_end, layer_info_end |-> layer_info_end,
             records |-> recs]
    IN
    IF ~Has(s, p, 2) THEN Result("PSD_ERR_STREAM_EOF", p, <<>>)
    ELSE With(IF Be16(Bytes(s, p, 2)) >= 32768 THEN 65536 - Be16(Bytes(s, p, 2))
              ELSE Be16(Bytes(s, p, 2)),
              LAMBDA layer_count :
         With(LayerRecordLoop(s, p + 2, layer_count, is_psb, layer_info_end,
                              section_end, <<>>),
              LAMBDA l :
         IF l.status # "PSD_OK" THEN Result(l.status, l.pos, l.recs)
         ELSE IF layer_info_end - l.pos < 0
         THEN Result("PSD_ERR_CORRUPT_DATA", l.pos, l.recs)
         ELSE With(ChannelDataEnd(s, AllChannels(l.recs, 1), 1, l.pos,
                       lengths_exclude_compression(AllChannels(l.recs, 1),
                                                   layer_info_end - l.pos)),
                   LAMBDA c :
              IF c.status # "PSD_OK" THEN Result(c.status, c.pos, l.recs)
              ELSE With(GlobalMaskAndEnd(s, c.pos, layer_info_end, section_end),
                        LAMBDA g : Result(g.status, g.pos, l.recs)))))

\* the layer-info length at p, in the width of the format or, for the
\* large format, in 4 bytes when 8 do not fit the section
LayerInfoLength(s, p, is_psb, section_end, width) ==
    LET Failed(status, at) ==
            [status |-> status, pos |-> at, width |-> width,
             section_end |-> section_end, layer_info_end |-> 0, records |-> <<>>]
    IN
    With(psd_stream_read_length(s, p, is_psb), LAMBDA r :
    IF r.status # "PSD_OK" THEN Failed(r.status, p)
    ELSE IF r.pos + r.value > section_end /\ is_psb
    THEN IF p + 4 + Be32(Bytes(s, p, 4)) > section_end
         THEN Failed("PSD_ERR_CORRUPT_DATA", p + 4)
         ELSE LayersAndData(s, p + 4, is_psb, p + 4 + Be32(Bytes(s, p, 4)),
                            section_end, width)
    ELSE IF r.pos + r.value > section_end
    THEN Failed("PSD_ERR_CORRUPT_DATA", r.pos)
    ELSE LayersAndData(s, r.pos, is_psb, r.pos + r.value, section_end, width))

\* psd_parse_layer_info on the source, positioned at offset 0.  width is
\* the width of the section length that was used
psd_parse_layer_info_bytes(s, is_psb) ==
    With(psd_stream_read_length(s, 0, is_psb), LAMBDA r :
    IF r.status # "PSD_OK"
    THEN [status |-> r.status, pos |-> 0, width |-> 0, section_end |-> 0,
          layer_info_end |-> 0, records |-> <<>>]
    ELSE IF r.value = 0
    THEN [status |-> "PSD_OK", pos |-> r.pos, width |-> r.pos,
          section_end |-> r.pos, layer_info_end |-> r.pos, records |-> <<>>]
    ELSE IF is_psb /\ SeekFails(s, r.pos + r.value)
    THEN LayerInfoLength(s, 4, is_psb, 4 + Be32(Bytes(s, 0, 4)), 4)
    ELSE LayerInfoLength(s, r.pos, is_psb, r.pos + r.value, r.pos))

(***************************************************************************)
(* Layer-and-mask-info sections as writers lay them out.                   *)
(***************************************************************************)
Enc64(n) == <<0, 0, 0, 0>> \o Enc32(n)

EncLength(width, n) == IF width = 8 THEN Enc64(n) ELSE Enc32(n)

KEY_norm == <<110, 111, 114, 109>>

\* a written layer: the payloads of its channels (stored raw) and its
\* extra-data
WrittenLayer(payloads, extra) == [payloads |-> payloads, extra |-> extra]

RECURSIVE ChannelInfoBytes(_, _, _)
ChannelInfoBytes(payloads, k, is_psb) ==
    IF k > Len(payloads) THEN <<>>
    ELSE Enc16(k - 1) \o EncLength(IF is_psb THEN 8 ELSE 4, Len(payloads[k]) + 2)
         \o ChannelInfoBytes(payloads, k + 1, is_psb)

\* what follows the channel descriptors of a record
RecordTail(extra_length, extra) ==
    SIG_8BIM \o KEY_norm \o <<255, 0, 8, 0>> \o Enc32(extra_length) \o extra

RecordBytes(layer, is_psb) ==
    Repeat(0, 16) \o Enc16(Len(layer.payloads))
        \o ChannelInfoBytes(layer.payloads, 1, is_psb)
        \o RecordTail(Len(layer.extra), layer.extra)

RECURSIVE RecordsBytes(_, _, _)
RecordsBytes(layers, i, is_psb) ==
    IF i > Len(layers) THEN <<>>
    ELSE RecordBytes(layers[i], is_psb) \o RecordsBytes(layers, i + 1, is_psb)

RECURSIVE PayloadBytes(_, _)
PayloadBytes(payloads, k) ==
    IF k > Len(payloads) THEN <<>>
    ELSE Enc16(0) \o payloads[k] \o PayloadBytes(payloads, k + 1)

RECURSIVE ChannelImageData(_, _)
ChannelImageData(layers, i) ==
    IF i > Len(layers) THEN <<>>
    ELSE PayloadBytes(layers[i].payloads, 1) \o ChannelImageData(layers, i + 1)

\* the section: its length in section_width bytes, the layer info behind
\* its length in info_width bytes (head, a run of fill zero bytes, rest,
\* pad zero bytes), the global layer mask info, further bytes of the
\* section, and the image data section behind it
SectionSource(section_width, info_width, head, fill, rest, pad, mask, further, image) ==
    LET info_length == Len(head) + fill + Len(rest) + pad
        section_length == info_width + info_length + 4 + Len(mask) + Len(further)
    IN Source(EncLength(section_width, section_length)
                  \o EncLength(info_width, info_length) \o head,
              fill,
              rest \o Repeat(0, pad) \o Enc32(Len(mask)) \o mask \o further \o image)

LayerInfoBytes(layers, is_psb) ==
    Enc16(Len(layers)) \o RecordsBytes(layers, 1, is_psb) \o ChannelImageData(layers, 1)

NamedOnly == WrittenLayer(<<>>, ExtraData(<<>>, <<>>, <<65>>, <<>>))
OnePlane == WrittenLayer(<<<<7>>>>, <<>>)

WrittenLayerLists == {<<>>, <<NamedOnly>>, <<OnePlane>>, <<OnePlane, NamedOnly>>}

MaxInfoPad == 2

SectionWidths(is_psb) == IF is_psb THEN {4, 8} ELSE {4}

\* well-formed sections in each combination of widths
WrittenSections ==
    UNION {{[is_psb |-> is_psb, section_width |-> sw,
             src |-> SectionSource(sw, iw, LayerInfoBytes(layers, is_psb), 0, <<>>,
                                   pad, mask, further, image)] :
               sw \in SectionWidths(is_psb), iw \in SectionWidths(is_psb),
               layers \in WrittenLayerLists, pad \in {0, MaxInfoPad},
               mask \in {<<>>, <<0, 0>>}, further \in {<<>>, <<1, 2>>},
               image \in {<<>>, <<0, 0, 9>>}} :
           is_psb \in BOOLEAN}

\* sections of length 0, and sources that end early
EmptyAndShort ==
    {[is_psb |-> is_psb, section_width |-> sw, src |-> Source(EncLength(sw, 0) \o image, 0, <<>>)] :
        is_psb \in BOOLEAN, sw \in {4, 8},
        image \in {<<>>, <<0, 0, 9>>, <<0, 0, 0, 0>>, <<0, 1, 0, 0, 0, 2>>}}
    \cup {[is_psb |-> FALSE, section_width |-> 4, src |-> Source(bytes, 0, <<>>)] :
            bytes \in {<<>>, <<0, 0>>, Enc32(2) \o <<0, 0>>, Enc32(6) \o Enc32(2) \o <<0, 1>>,
                       Enc32(4) \o Enc32(8), Enc32(4) \o Enc32(0)}}

\* records that declare more than 56 channels, or more than a million
\* bytes of extra-data: all of them there, or not
OverlongChannels == 57
OverlongExtra == 1000001

DeclaredOnly ==
    {[is_psb |-> FALSE, section_width |-> 4,
      src |-> SectionSource(4, 4,
                  Enc16(2) \o Repeat(0, 16) \o Enc16(OverlongChannels),
                  6 * OverlongChannels,
                  RecordTail(0, <<>>) \o RecordBytes(NamedOnly, FALSE),
                  pad, <<>>, <<>>, <<0, 0, 9>>)] : pad \in {0, MaxInfoPad}}
    \cup {[is_psb |-> FALSE, section_width |-> 4,
           src |-> SectionSource(4, 4,
                       Enc16(2) \o Repeat(0, 16) \o Enc16(0)
                           \o SIG_8BIM \o KEY_norm \o <<255, 0, 8, 0>>
                           \o Enc32(OverlongExtra),
                       OverlongExtra,
                       RecordBytes(NamedOnly, FALSE),
                       pad, <<>>, <<>>, <<0, 0, 9>>)] : pad \in {0, MaxInfoPad}}
    \cup {[is_psb |-> FALSE, section_width |-> 4,
           src |-> SectionSource(4, 4,
                       Enc16(n) \o Repeat(0, 16) \o Enc16(0)
                           \o SIG_8BIM \o KEY_norm \o <<255, 0, 8, 0>>
                           \o Enc32(OverlongExtra),
                       0, <<>>, 0, <<>>, <<>>, image)] :
            n \in {1, 2}, image \in {<<>>, <<0, 0, 9>>}}

LayerInfoSources == WrittenSections \cup EmptyAndShort \cup DeclaredOnly

InitLayerInfo ==
    /\ stream \in LayerInfoSources
    /\ pc = "input"
    /\ pos = 0
    /\ doc = NULL_DOC
    /\ ret = "none"
    /\ out_status = "unset"
    /\ build = [zip |-> TRUE]
    /\ call = [name |-> "none"]
    /\ hist = <<>>

\* psd_parse_layer_info(stream, doc) with the stream at the section
ParseLayerInfo ==
    /\ pc = "input"
    /\ \E r \in {psd_parse_layer_info_bytes(stream.src, stream.is_psb)} :
          /\ out_status' = r.status
          /\ pos' = r.pos
          /\ call' = [name |-> "psd_parse_layer_info", width |-> r.width,
                      section_end |-> r.section_end,
                      layer_info_end |-> r.layer_info_end, records |-> r.records]
    /\ pc' = "parsed"
    /\ UNCHANGED <<stream, doc, ret, build, hist>>

NextLayerInfo == ParseLayerInfo

SpecLayerInfo == InitLayerInfo /\ [][NextLayerInfo]_vars

LayerInfoParsed == pc = "parsed" /\ out_status = "PSD_OK"

\* the section length the source declares, read in width bytes
DeclaredSectionLength(s, width) ==
    IF width = 8 THEN Be64(Bytes(s, 0, 8)) ELSE Be32(Bytes(s, 0, 4))

\* C22: when the parse of the layer and mask info returns success, the
\* stream is at the end of the section: behind the section's length field
\* (4 bytes, or 8 in the large format unless 4 were fallen back to) by the
\* length declared there, whichever widths the length fields were read in,
\* and for a section of length zero.
C22_EndsAtSectionEnd ==
    LayerInfoParsed =>
        /\ call.width \in SectionWidths(stream.is_psb)
        /\ pos = call.width + DeclaredSectionLength(stream.src, call.width)
        /\ pos = call.section_end

\* a large-format section with a 4-byte section length and an 8-byte
\* layer-info length, two layers, padding behind the channel data, global
\* mask data and further bytes before the image data
C22_Witness ==
    /\ LayerInfoParsed
    /\ stream.is_psb /\ stream.section_width = 4 /\ call.width = 4
    /\ Len(call.records) = 2
    /\ call.records[1].channel_count = 1
    /\ call.layer_info_end + 4 + 2 + 2 = call.section_end
    /\ pos = call.section_end
    /\ pos + 3 = SourceLen(stream.src)

\* a section of length zero
C22_EmptySection ==
    /\ LayerInfoParsed
    /\ ~stream.is_psb /\ call.section_end = 4 /\ pos = 4
    /\ SourceLen(stream.src) = 7

\* the fixed fields of a record of the standard format with n channels
FixedFieldSize(n) == 16 + 2 + 6 * n + 4 + 4 + 4 + 4

\* C23: a record that declares more than 56 channels or more than 10^6
\* bytes of extra-data is kept without channels; the declared extra bytes
\* are skipped, or the loop stops at the record when they reach beyond the
\* section; the bytes consumed for the record are its fixed fields for the
\* declared channel count and its declared extra length, so that the next
\* record is read where it begins.
C23_OverlongRecordConsumed ==
    (pc = "parsed" /\ ~stream.is_psb) =>
        \A i \in 1..Len(call.records) :
            ((call.records[i].declared_channels > MaxChannelCount
                  \/ call.records[i].declared_extra > MaxExtraLength)
             /\ call.records[i].outcome \in {"PSD_OK", "stop"}) =>
                /\ call.records[i].channel_count = 0
                /\ call.records[i].outcome = "PSD_OK" =>
                       call.records[i].end - call.records[i].start
                           = FixedFieldSize(call.records[i].declared_channels)
                                 + call.records[i].declared_extra
                /\ call.records[i].outcome = "stop" =>
                       /\ i = Len(call.records)
                       /\ call.records[i].end = call.section_end

\* a record declaring 57 channels: 34 bytes are consumed, and the next
\* record is read from the channel descriptors of this one
C23_ChannelsNotSkipped ==
    /\ pc = "parsed" /\ ~stream.is_psb
    /\ Len(call.records) = 2
    /\ call.records[1].declared_channels = OverlongChannels
    /\ call.records[1].channel_count = 0
    /\ call.records[1].end - call.records[1].start = FixedFieldSize(0)
    /\ call.records[2].start
           < call.records[1].start + FixedFieldSize(OverlongChannels)

\* with a channel count within the limit, the record of overlong
\* extra-data is consumed as declared
C23_ExtraLengthSkipped ==
    (pc = "parsed" /\ ~stream.is_psb) =>
        \A i \in 1..Len(call.records) :
            (call.records[i].declared_channels <= MaxChannelCount
             /\ call.records[i].declared_extra > MaxExtraLength
             /\ call.records[i].outcome = "PSD_OK") =>
                /\ call.records[i].channel_count = 0
                /\ call.records[i].end - call.records[i].start
                       = FixedFieldSize(call.records[i].declared_channels)
                             + call.records[i].declared_extra

\* the million bytes were there and were skipped; the second record was
\* read behind them
C23_ExtraSkippedWitness ==
    /\ LayerInfoParsed /\ ~stream.is_psb
    /\ Len(call.records) = 2
    /\ call.records[1].declared_extra = OverlongExtra
    /\ call.records[1].outcome = "PSD_OK"
    /\ call.records[2].start = call.records[1].start + FixedFieldSize(0) + OverlongExtra
    /\ call.records[2].declared_extra = 12

\* ---------------------------------------------------------------------
\* psd_parse_descriptor on a byte buffer, with the allocator's calls
\* ---------------------------------------------------------------------

\* a block of the allocator: what it holds and, for keys and values, the
\* index of the property
DescBlk(kind, index) == [kind |-> kind, index |-> index]

Malloc(b) == [op |-> "malloc", block |-> b]

Free(b) == [op |-> "free", block |-> b]

\* the allocator calls of psd_parse_class_id at p, the identifier going to b
ClassIdEvents(data, p, oom, b) ==
    IF ~CanRead(data, p, 4) THEN <<>>
    ELSE IF Be32(Slice(data, p, 4)) = 0
    THEN IF CanRead(data, p + 4, 4) /\ oom # "class_id" THEN <<Malloc(b)>> ELSE <<>>
    ELSE IF oom = "class_id" THEN <<>>
    ELSE IF ~CanRead(data, p + 4, Be32(Slice(data, p, 4)))
    THEN <<Malloc(b), Free(b)>>
    ELSE <<Malloc(b)>>

\* the allocator calls of n bytes of raw data read at p into b
RawEvents(data, p, n, oom, b) ==
    IF oom = "value" THEN <<>>
    ELSE IF ~CanRead(data, p, n) THEN <<Malloc(b), Free(b)>>
    ELSE <<Malloc(b)>>

\* the allocator calls of psd_parse_descriptor_value for property i
ValueEvents(data, p, type_id, oom, i) ==
    IF FixedSize(type_id) > 0
    THEN RawEvents(data, p, FixedSize(type_id), oom, DescBlk("value", i))
    ELSE IF type_id = PSD_DESC_STRING
    THEN IF ~CanRead(data, p, 4) \/ oom = "value" THEN <<>>
         ELSE IF Be32(Slice(data, p, 4)) = 0 THEN <<Malloc(DescBlk("value", i))>>
         ELSE IF ~CanRead(data, p + 4, Be32(Slice(data, p, 4)) * 2)
         THEN <<Malloc(DescBlk("utf16", i)), Free(DescBlk("utf16", i))>>
         ELSE <<Malloc(DescBlk("utf16", i)), Malloc(DescBlk("value", i)),
                Free(DescBlk("utf16", i))>>
    ELSE IF ~CanRead(data, p, 4) THEN <<>>
    ELSE IF Be32(Slice(data, p, 4)) > 100 * 1024 * 1024 THEN <<>>
    ELSE IF Be32(Slice(data, p, 4)) = 0 THEN <<>>
    ELSE RawEvents(data, p + 4, Be32(Slice(data, p, 4)), oom, DescBlk("value", i))

\* whether the events allocate b
Allocated(events, b) == \E k \in 1..Len(events) : events[k] = Malloc(b)

\* how many times the events free b
FreeCount(events, b) == Cardinality({k \in 1..Len(events) : events[k] = Free(b)})

\* the error label: the keys and values of the properties below
\* parsed_count, from property i on
RECURSIVE FreeParsed(_, _, _)
FreeParsed(events, i, parsed_count) ==
    IF i >= parsed_count THEN <<>>
    ELSE <<Free(DescBlk("key", i))>>
         \o (IF Allocated(events, DescBlk("value", i)) THEN <<Free(DescBlk("value", i))>>
             ELSE <<>>)
         \o FreeParsed(events, i + 1, parsed_count)

\* the property loop from property i on: [failed, parsed_count, events]
RECURSIVE PropertyEvents(_, _, _, _, _, _)
PropertyEvents(data, p, i, count, oom, events) ==
    IF i = count THEN [failed |-> FALSE, parsed_count |-> i, events |-> events]
    ELSE With(psd_parse_class_id(data, p, oom), LAMBDA key :
         With(events \o ClassIdEvents(data, p, oom, DescBlk("key", i)), LAMBDA keyed :
         IF key.status # "PSD_OK" \/ ~CanRead(data, key.pos, 4)
         THEN [failed |-> TRUE, parsed_count |-> i, events |-> keyed]
         ELSE With(psd_parse_descriptor_value(data, key.pos + 4,
                       Slice(data, key.pos, 4), oom),
                   LAMBDA v :
              With(keyed \o ValueEvents(data, key.pos + 4, Slice(data, key.pos, 4),
                                        oom, i),
                   LAMBDA valued :
              IF v.status # "PSD_OK"
              THEN [failed |-> TRUE, parsed_count |-> i, events |-> valued]
              ELSE PropertyEvents(data, v.pos, i + 1, count, oom, valued)))))

\* the allocator calls of the descriptor from its property count on; cid is
\* the class id read and held in block c
BodyEvents(data, cid, oom, c) ==
    IF ~CanRead(data, cid.pos, 4) \/ Be32(Slice(data, cid.pos, 4)) > 1000000
       \/ (Be32(Slice(data, cid.pos, 4)) > 0 /\ oom = "properties")
    THEN <<Free(c), Free(DescBlk("descriptor", 0))>>
    ELSE IF Be32(Slice(data, cid.pos, 4)) = 0 THEN <<>>
    ELSE With(PropertyEvents(data, cid.pos + 4, 0, Be32(Slice(data, cid.pos, 4)),
                             oom, <<>>),
              LAMBDA loop :
         <<Malloc(DescBlk("properties", 0))>> \o loop.events
             \o (IF loop.failed
                 THEN <<Free(c)>>
                      \o FreeParsed(loop.events, 0, loop.parsed_count)
                      \o <<Free(DescBlk("properties", 0)), Free(DescBlk("descriptor", 0))>>
                 ELSE <<>>))

\* the allocator calls of psd_parse_descriptor(data at p), in order; the
\* class id of variant A is block class_id 0, that of variant B class_id 1
DescriptorEvents(data, p, oom) ==
    IF oom = "descriptor" THEN <<>>
    ELSE With(psd_skip_unicode_string(data, p), LAMBDA name :
         With(IF name.status = "PSD_OK" THEN psd_parse_class_id(data, name.pos, oom)
              ELSE [status |-> name.status, id |-> NULL, pos |-> name.pos],
              LAMBDA variant_a :
         With(IF name.status = "PSD_OK"
              THEN ClassIdEvents(data, name.pos, oom, DescBlk("class_id", 0))
              ELSE <<>>,
              LAMBDA events_a :
         IF variant_a.status = "PSD_OK"
         THEN <<Malloc(DescBlk("descriptor", 0))>> \o events_a
                  \o BodyEvents(data, variant_a, oom, DescBlk("class_id", 0))
         ELSE With(psd_parse_class_id(data, p, oom), LAMBDA variant_b :
              <<Malloc(DescBlk("descriptor", 0))>> \o events_a
                  \o ClassIdEvents(data, p, oom, DescBlk("class_id", 1))
                  \o (IF variant_b.status # "PSD_OK"
                      THEN <<Free(DescBlk("descriptor", 0))>>
                      ELSE BodyEvents(data, variant_b, oom, DescBlk("class_id", 1)))))))

\* the bytes of one property
PropertyBytes(property) ==
    KeyBytes(property.key) \o property.type_id \o property.bytes

\* descriptors of two properties, in variant B
PropertyPairs ==
    {KeyBytes(<<65>>) \o Enc32(2) \o PropertyBytes(first) \o PropertyBytes(second) :
        first \in {[key |-> <<67, 110, 116, 32>>, type_id |-> PSD_DESC_INTEGER,
                    bytes |-> Enc32(7)],
                   [key |-> <<97, 98>>, type_id |-> PSD_DESC_STRING,
                    bytes |-> Enc32(1) \o <<0, 65>>]},
        second \in {[key |-> KEY_Txt, type_id |-> PSD_DESC_BOOLEAN, bytes |-> <<1>>],
                    [key |-> <<88, 120, 120, 120>>, type_id |-> <<88, 88, 88, 88>>,
                     bytes |-> Enc32(2) \o <<1, 2>>]}}

\* the bytes behind a descriptor in its payload
DescriptorTails == {<<>>, <<0, 97, 98, 99, 100>>, Enc16(1) \o Enc32(16)}

\* a property count beyond the limit of 1000000
OverlongCount == 2000000

\* descriptors in both variants, whole and cut short, alone and followed
\* by more of the payload
DescriptorInputs ==
    UNION {Prefixes(DescriptorBytes(named, properties)) :
              named \in BOOLEAN, properties \in TextProperties}
    \cup UNION {Prefixes(pair) : pair \in PropertyPairs}
    \cup {KeyBytes(id) \o Enc32(0) \o tail :
            id \in {<<65>>, <<84, 120, 76, 114>>}, tail \in DescriptorTails}
    \cup {OSType(<<84, 120, 76, 114>>) \o Enc32(OverlongCount)}

DescriptorAllocationSites == {"none", "descriptor", "class_id", "properties", "value"}

InitDescriptor ==
    /\ stream \in DescriptorInputs
    /\ pc = "input"
    /\ pos = 0
    /\ doc = NULL_DOC
    /\ ret = "none"
    /\ out_status = "unset"
    /\ build = [zip |-> TRUE]
    /\ call = [name |-> "none"]
    /\ hist = <<>>

\* psd_parse_descriptor(stream, allocator, &descriptor) with the stream at
\* the start of the buffer
ParseDescriptor ==
    /\ pc = "input"
    /\ \E oom \in DescriptorAllocationSites :
       \E r \in {psd_parse_descriptor(stream, 0, oom)} :
          /\ out_status' = r.status
          /\ pos' = r.pos
          /\ call' = [name |-> "psd_parse_descriptor", oom |-> oom,
                      descriptor |-> r.descriptor,
                      events |-> DescriptorEvents(stream, 0, oom)]
    /\ pc' = "parsed"
    /\ UNCHANGED <<stream, doc, ret, build, hist>>

NextDescriptor == ParseDescriptor

SpecDescriptor == InitDescriptor /\ [][NextDescriptor]_vars

DescriptorParsed == pc = "parsed" /\ call.name = "psd_parse_descriptor"

\* the first layout alone: a Unicode name, the class id, the count and the
\* properties
LayoutA(data, p, oom) ==
    With(psd_skip_unicode_string(data, p), LAMBDA name :
         IF name.status # "PSD_OK"
         THEN [status |-> name.status, descriptor |-> NULL_DESC, pos |-> name.pos]
         ELSE With(psd_parse_class_id(data, name.pos, oom), LAMBDA cid :
              IF cid.status # "PSD_OK"
              THEN [status |-> cid.status, descriptor |-> NULL_DESC, pos |-> cid.pos]
              ELSE DescriptorBody(data, cid, oom)))

\* the second layout alone: the class id, the count and the properties
LayoutB(data, p, oom) ==
    With(psd_parse_class_id(data, p, oom), LAMBDA cid :
         IF cid.status # "PSD_OK"
         THEN [status |-> cid.status, descriptor |-> NULL_DESC, pos |-> cid.pos]
         ELSE DescriptorBody(data, cid, oom))

\* C21: the descriptor parser attempts the first layout from the saved
\* position and, on a failure anywhere in that attempt (name, class id,
\* property count or a property), returns to the saved position and attempts
\* the second layout; the success of either attempt is the result.
C21_EitherLayoutAccepted ==
    (DescriptorParsed /\ call.oom # "descriptor") =>
        IF LayoutA(stream, 0, call.oom).status = "PSD_OK"
        THEN /\ out_status = "PSD_OK"
             /\ call.descriptor = LayoutA(stream, 0, call.oom).descriptor
             /\ pos = LayoutA(stream, 0, call.oom).pos
        ELSE IF LayoutB(stream, 0, call.oom).status = "PSD_OK"
        THEN /\ out_status = "PSD_OK"
             /\ call.descriptor = LayoutB(stream, 0, call.oom).descriptor
             /\ pos = LayoutB(stream, 0, call.oom).pos
        ELSE out_status # "PSD_OK"

\* A descriptor in the second layout (class id "A", no properties) followed
\* by five more bytes: the first layout reads a name and a class id out of
\* them and fails at the property count; the error is returned although
\* the second layout parses.
C21_SecondLayoutNotTried ==
    /\ DescriptorParsed /\ call.oom = "none"
    /\ stream = <<0, 0, 0, 1, 65, 0, 0, 0, 0, 0, 97, 98, 99, 100>>
    /\ psd_skip_unicode_string(stream, 0).status = "PSD_OK"
    /\ psd_parse_class_id(stream, 6, "none").status = "PSD_OK"
    /\ out_status = "PSD_ERR_STREAM_EOF"
    /\ LayoutB(stream, 0, "none").status = "PSD_OK"
    /\ LayoutB(stream, 0, "none").pos = 9

\* The return to the saved position is made when the name or the class id
\* of the first layout fails: the result is then that of the second layout.
C21_ClassIdRollback ==
    (DescriptorParsed /\ call.oom # "descriptor"
     /\ (psd_skip_unicode_string(stream, 0).status # "PSD_OK"
         \/ psd_parse_class_id(stream, psd_skip_unicode_string(stream, 0).pos,
                               call.oom).status # "PSD_OK")) =>
        /\ out_status = LayoutB(stream, 0, call.oom).status
        /\ call.descriptor = LayoutB(stream, 0, call.oom).descriptor

\* a descriptor in the second layout parsed after the first layout failed
C21_RolledBack ==
    /\ DescriptorParsed /\ call.oom = "none"
    /\ out_status = "PSD_OK"
    /\ LayoutA(stream, 0, "none").status # "PSD_OK"
    /\ call.descriptor.property_count = 2

\* the blocks the events allocate
AllocatedBlocks(events) ==
    {events[k].block : k \in {j \in 1..Len(events) : events[j].op = "malloc"}}

\* the blocks allocated and not freed when the parse returns
Outstanding(events) ==
    {b \in AllocatedBlocks(events) : FreeCount(events, b) = 0}

DescriptorFailed == DescriptorParsed /\ out_status # "PSD_OK"

\* C24: when the parse of a descriptor fails, at whichever point, every
\* block the parse allocated has been freed exactly once when the error is
\* returned, the key and the partial value of the property being parsed at
\* the failure included.
C24_FailureFreesAll ==
    DescriptorFailed =>
        \A b \in AllocatedBlocks(call.events) : FreeCount(call.events, b) = 1

\* A descriptor whose second property has its key and then a value cut
\* short: the error label frees the first property's key and value, the
\* class id, the array and the descriptor; the second key stays allocated.
C24_KeyLeaked ==
    /\ DescriptorFailed /\ call.oom = "none"
    /\ out_status = "PSD_ERR_STREAM_EOF"
    /\ Outstanding(call.events) = {DescBlk("key", 1)}
    /\ FreeCount(call.events, DescBlk("key", 0)) = 1
    /\ FreeCount(call.events, DescBlk("value", 0)) = 1

\* Every block but the key of the property being parsed is freed exactly
\* once, and no block is freed that was not allocated.
C24_AllButFailingKey ==
    DescriptorFailed =>
        /\ \A b \in AllocatedBlocks(call.events) :
              \/ FreeCount(call.events, b) = 1
              \/ /\ b.kind = "key" /\ FreeCount(call.events, b) = 0
                 /\ ~Allocated(call.events, DescBlk("key", b.index + 1))
        /\ \A k \in 1..Len(call.events) :
              call.events[k].op = "free" =>
                  \E j \in 1..(k - 1) : call.events[j] = Malloc(call.events[k].block)

\* a failure in the class id, the count or the array: nothing is left
C24_EarlyFailureClean ==
    /\ DescriptorFailed /\ call.oom = "properties"
    /\ Allocated(call.events, DescBlk("class_id", 0))
    /\ Outstanding(call.events) = {}
=============================================================================
